---------------------------- MODULE Spec2Model ----------------------------
(***************************************************************************)
(* sPageSaver (chrome-page-saver): the article extraction and Markdown     *)
(* conversion engine of content.js, and the message protocol between the   *)
(* popup / background service worker and the content script.               *)
(*                                                                         *)
(* Strings are sequences of one-character strings.  Attribute values that  *)
(* are URL references (href, src, data-src) are atomic tokens: they are    *)
(* never part of textContent, and the browser's URL parser is modelled by  *)
(* a table over the bounded set of references the documents use.           *)
(***************************************************************************)
EXTENDS Integers, Sequences, FiniteSets, TLC

(***************************************************************************)
(* Bounds of the model.                                                    *)
(***************************************************************************)
MaxTop == 2        \* top-level blocks under <body> of an extracted page
MaxBlocks == 2     \* top-level blocks of a converted subtree
MaxReloads == 1    \* reloads of the tab
MaxMsgs == 2       \* messages handed to the background

(***************************************************************************)
(* Generic helpers.                                                        *)
(***************************************************************************)
Max(S) == CHOOSE x \in S : \A y \in S : y <= x

Rep(c, n) == [i \in 1..n |-> c]

SeqsUpTo(S, n) == UNION {[1..k -> S] : k \in 0..n}

\* F applied to the value of v.  TLC evaluates an operator's argument, and a
\* LET definition, anew wherever it is used; a bound variable is evaluated
\* once.
With(v, F(_)) == CHOOSE r \in {F(x) : x \in {v}} : TRUE

RECURSIVE Concat(_)
Concat(ss) == IF ss = <<>> THEN <<>> ELSE Head(ss) \o Concat(Tail(ss))

(***************************************************************************)
(* JavaScript string primitives.                                           *)
(***************************************************************************)
NL == "\n"

\* the grave accent U+0060, which a TLA+ string literal cannot hold
BT == "GRAVE"

\* white space without the line break
WhiteSpaceNoNewline == {" ", "\t"}

WhiteSpace == {" ", "\n", "\t"}

RECURSIVE TrimStart(_)
TrimStart(s) ==
  IF s # <<>> /\ Head(s) \in WhiteSpace THEN TrimStart(Tail(s)) ELSE s

RECURSIVE TrimEnd(_)
TrimEnd(s) ==
  IF s # <<>> /\ s[Len(s)] \in WhiteSpace
  THEN TrimEnd(SubSeq(s, 1, Len(s) - 1)) ELSE s

\* String.prototype.trim
Trim(s) == TrimEnd(TrimStart(s))

\* String.prototype.split('\n'): always at least one (possibly empty) piece
RECURSIVE SplitNL(_, _, _)
SplitNL(s, i, cur) ==
  IF i > Len(s) THEN <<cur>>
  ELSE IF s[i] = NL THEN <<cur>> \o SplitNL(s, i + 1, <<>>)
  ELSE SplitNL(s, i + 1, Append(cur, s[i]))

\* Array.prototype.join(sep)
RECURSIVE Join(_, _)
Join(parts, sep) ==
  IF parts = <<>> THEN <<>>
  ELSE IF Len(parts) = 1 THEN parts[1]
  ELSE parts[1] \o sep \o Join(Tail(parts), sep)

\* decimal rendering of a positive integer (template literal `${idx + 1}`)
RECURSIVE Decimal(_)
Decimal(n) ==
  LET d == <<"0", "1", "2", "3", "4", "5", "6", "7", "8", "9">>
  IN IF n < 10 THEN <<d[n + 1]>> ELSE Decimal(n \div 10) \o <<d[(n % 10) + 1]>>

(***************************************************************************)
(* The DOM: a heap of nodes.  A node is a record                           *)
(*   tag   : lower-case tag name, "#text" for a text node                  *)
(*   attrs : class (set), id, role, href, src, dsrc (data-src), alt        *)
(*   text  : the data of a text node                                       *)
(*   kids  : the child nodes, in document order                            *)
(* An absent attribute and an empty attribute are both "" (the code only   *)
(* tests attributes for truthiness).                                       *)
(***************************************************************************)
NoAttrs ==
  [class |-> {}, id |-> "", role |-> "", href |-> "", src |-> "",
   dsrc |-> "", alt |-> <<>>]

\* tree literals, loaded into the heap by LoadTree
T(s) == [tag |-> "#text", attrs |-> NoAttrs, text |-> s, kids |-> <<>>]
E(tag, kids) == [tag |-> tag, attrs |-> NoAttrs, text |-> <<>>, kids |-> kids]
EA(tag, attrs, kids) ==
  [tag |-> tag, attrs |-> attrs, text |-> <<>>, kids |-> kids]

NextId(h) == IF DOMAIN h = {} THEN 1 ELSE Max(DOMAIN h) + 1

RECURSIVE LoadTree(_, _)
RECURSIVE LoadKids(_, _, _, _)
\* appends the tree t to heap h; its root gets the id NextId(h)
LoadTree(h, t) ==
  With(h @@ (NextId(h) :> [tag |-> t.tag, attrs |-> t.attrs,
                           text |-> t.text, kids |-> <<>>]),
       LAMBDA h1 : LoadKids(h1, NextId(h), t.kids, 1))

LoadKids(h, parent, ks, i) ==
  IF i > Len(ks) THEN h
  ELSE With([LoadTree(h, ks[i]) EXCEPT ![parent].kids = Append(@, NextId(h))],
            LAMBDA h2 : LoadKids(h2, parent, ks, i + 1))

IsText(h, n) == h[n].tag = "#text"
IsElement(h, n) == h[n].tag \notin {"#text", "#document"}

RECURSIVE Preorder(_, _)
RECURSIVE PreorderAll(_, _, _)
\* the subtree of n in document order, n first
Preorder(h, n) == <<n>> \o PreorderAll(h, h[n].kids, 1)

PreorderAll(h, ks, i) ==
  IF i > Len(ks) THEN <<>>
  ELSE Preorder(h, ks[i]) \o PreorderAll(h, ks, i + 1)

\* the descendants of n in document order
Descendants(h, n) == Tail(Preorder(h, n))

Range(s) == {s[i] : i \in 1..Len(s)}

HasParent(h, n) == \E m \in DOMAIN h : n \in Range(h[m].kids)
ParentOf(h, n) == CHOOSE m \in DOMAIN h : n \in Range(h[m].kids)

RECURSIVE Ancestors(_, _)
Ancestors(h, n) ==
  IF HasParent(h, n)
  THEN {ParentOf(h, n)} \cup Ancestors(h, ParentOf(h, n))
  ELSE {}

\* Node.textContent: the concatenated data of all text descendants
TextContent(h, n) ==
  LET pre == Preorder(h, n)
  IN Concat([i \in 1..Len(pre) |-> h[pre[i]].text])


\* cloneNode that hands back the node itself instead of a copy
cloneNodeAliased(h, n) == [heap |-> h, node |-> n]

\* Node.cloneNode(true): a deep copy of src with fresh node identities,
\* rooted at NextId(h)
RECURSIVE CloneTree(_, _)
RECURSIVE CloneKids(_, _, _, _)
CloneTree(h, src) ==
  With(h @@ (NextId(h) :> [h[src] EXCEPT !.kids = <<>>]),
       LAMBDA h1 : CloneKids(h1, NextId(h), h[src].kids, 1))

CloneKids(h, parent, ks, i) ==
  IF i > Len(ks) THEN h
  ELSE With([CloneTree(h, ks[i]) EXCEPT ![parent].kids = Append(@, NextId(h))],
            LAMBDA h2 : CloneKids(h2, parent, ks, i + 1))

\* Node.cloneNode(true)
cloneNode(h, n) == [heap |-> CloneTree(h, n), node |-> NextId(h)]

\* Element.remove(): detach n from its parent, if it has one
Remove(h, n) ==
  IF HasParent(h, n)
  THEN [h EXCEPT ![ParentOf(h, n)].kids = SelectSeq(@, LAMBDA k : k # n)]
  ELSE h

(***************************************************************************)
(* CSS selectors, as far as the code uses them.  A simple selector tests   *)
(* the tag, a class, the id or the role attribute; "desc" is the           *)
(* descendant combinator `anc sub`.  A selector list is a set.             *)
(***************************************************************************)
Tag(t) == [k |-> "tag", v |-> t]
Class(c) == [k |-> "class", v |-> c]
Id(i) == [k |-> "id", v |-> i]
Role(r) == [k |-> "role", v |-> r]
Desc(a, s) == [k |-> "desc", anc |-> a, sub |-> s]

MatchesSimple(h, n, sel) ==
  /\ IsElement(h, n)
  /\ CASE sel.k = "tag"   -> h[n].tag = sel.v
       [] sel.k = "class" -> sel.v \in h[n].attrs.class
       [] sel.k = "id"    -> h[n].attrs.id = sel.v
       [] sel.k = "role"  -> h[n].attrs.role = sel.v
       [] OTHER           -> FALSE

Matches(h, n, sel) ==
  IF sel.k = "desc"
  THEN /\ MatchesSimple(h, n, sel.sub)
       /\ \E a \in Ancestors(h, n) : MatchesSimple(h, a, sel.anc)
  ELSE MatchesSimple(h, n, sel)

\* root.querySelectorAll(list): matching descendants in document order
querySelectorAll(h, root, sels) ==
  SelectSeq(Descendants(h, root),
            LAMBDA n : \E sel \in sels : Matches(h, n, sel))

Null == 0

\* root.querySelector(list): the first match, or null
querySelector(h, root, sels) ==
  LET all == querySelectorAll(h, root, sels)
  IN IF all = <<>> THEN Null ELSE all[1]

\* node.querySelectorAll('li'): every li descendant
ScopeChildrenDeep(h, n, tag) == querySelectorAll(h, n, {Tag(tag)})

\* node.querySelectorAll(':scope > li')
ScopeChildren(h, n, tag) == SelectSeq(h[n].kids, LAMBDA k : h[k].tag = tag)

(***************************************************************************)
(* The page: node 1 is the document, its child the <html> element, whose   *)
(* children are <head> and (usually) <body>.                               *)
(***************************************************************************)
Document == 1

\* document.body
Body(h) ==
  LET html == h[Document].kids
      bs == IF html = <<>> THEN <<>> ELSE ScopeChildren(h, html[1], "body")
  IN IF bs = <<>> THEN Null ELSE bs[1]

\* window.location.href
PageUrl == "https://example.com/a/b"

\* document.title
DocumentTitle == <<"M", "y", " ", "A", "r", "t", "i", "c", "l", "e">>

(***************************************************************************)
(* new URL(ref, base).href for the references the documents use: the       *)
(* result of the browser's URL parser, "TypeError" where it throws.        *)
(***************************************************************************)
UrlRefs == {"https://x.com/y", "/c", "img.png", "//[", "http-guide.html"}

\* String.prototype.startsWith('http')
StartsWithHttp(ref) == ref \in {"https://x.com/y", "http-guide.html"}

NewURL(ref, base) ==
  CASE ref = "https://x.com/y" -> "https://x.com/y"
    [] ref = "/c"              -> "https://example.com/c"
    [] ref = "img.png"         -> "https://example.com/a/img.png"
    [] ref = "http-guide.html" -> "https://example.com/a/http-guide.html"
    [] OTHER                   -> "TypeError"

(***************************************************************************)
(* Markdown Transducer.  A conversion yields [ok |-> TRUE, s |-> string],  *)
(* or Throw when `new URL` raised a TypeError that nothing in              *)
(* htmlToMarkdown catches.                                                 *)
(***************************************************************************)
Ok(s) == [ok |-> TRUE, s |-> s]
Throw == [ok |-> FALSE, s |-> <<>>]

Str2 == <<NL, NL>>

Hashes(level) == Rep("#", level)

HeadingLevel(tag) ==
  CASE tag = "h1" -> 1 [] tag = "h2" -> 2 [] tag = "h3" -> 3
    [] tag = "h4" -> 4 [] tag = "h5" -> 5 [] tag = "h6" -> 6 [] OTHER -> 0

\* src.startsWith('http') ? src : new URL(src, window.location.href).href
Absolutize(ref) == IF StartsWithHttp(ref) THEN ref ELSE NewURL(ref, PageUrl)

\* convertTableToMarkdown with a separator as wide as the widest row
convertTableToMarkdownWidestRow(h, table) ==
  LET rows == querySelectorAll(h, table, {Tag("tr")})
      Cells(row) == querySelectorAll(h, row, {Tag("td"), Tag("th")})
      RowText(row) ==
        Join([i \in 1..Len(Cells(row)) |->
                Trim(TextContent(h, Cells(row)[i]))], <<" ", "|", " ">>)
      Widest == Max({Len(Cells(rows[i])) : i \in 1..Len(rows)})
      Separator ==
        Join([i \in 1..Widest |-> <<"-", "-", "-">>], <<" ", "|", " ">>)
      Line(txt) == <<"|", " ">> \o txt \o <<" ", "|", NL>>
      RowOut(i) ==
        Line(RowText(rows[i])) \o
        (IF i = 1 THEN Line(Separator) ELSE <<>>)
  IN IF Len(rows) = 0 THEN <<>>
     ELSE <<NL>> \o Concat([i \in 1..Len(rows) |-> RowOut(i)]) \o <<NL>>

convertTableToMarkdown(h, table) ==
  LET rows == querySelectorAll(h, table, {Tag("tr")})
      Cells(row) == querySelectorAll(h, row, {Tag("td"), Tag("th")})
      RowText(row) ==
        Join([i \in 1..Len(Cells(row)) |->
                Trim(TextContent(h, Cells(row)[i]))], <<" ", "|", " ">>)
      Separator(row) ==
        Join([i \in 1..Len(Cells(row)) |-> <<"-", "-", "-">>],
             <<" ", "|", " ">>)
      Line(txt) == <<"|", " ">> \o txt \o <<" ", "|", NL>>
      RowOut(i) ==
        Line(RowText(rows[i])) \o
        (IF i = 1 THEN Line(Separator(rows[i])) ELSE <<>>)
  IN IF Len(rows) = 0 THEN <<>>
     ELSE <<NL>> \o Concat([i \in 1..Len(rows) |-> RowOut(i)]) \o <<NL>>

RECURSIVE processNode(_, _, _)
RECURSIVE ProcessChildren(_, _, _)

\* Array.from(node.childNodes).map(n => processNode(n, listLevel)).join('')
ProcessChildren(h, node, listLevel) ==
  LET ks == h[node].kids
      rs == [i \in 1..Len(ks) |-> processNode(h, ks[i], listLevel)]
  IN IF \E i \in 1..Len(ks) : ~rs[i].ok THEN Throw
     ELSE Ok(Concat([i \in 1..Len(ks) |-> rs[i].s]))

processNode(h, node, listLevel) ==
  LET tag == h[node].tag
      kids == ProcessChildren(h, node, listLevel)
  IN
  IF IsText(h, node) THEN
    (IF Trim(h[node].text) # <<>> THEN Ok(h[node].text) ELSE Ok(<<>>))
  ELSE IF ~IsElement(h, node) THEN Ok(<<>>)
  ELSE IF tag \in {"script", "style", "noscript", "iframe"} THEN Ok(<<>>)
  ELSE IF HeadingLevel(tag) > 0 THEN
    Ok(<<NL>> \o Hashes(HeadingLevel(tag)) \o <<" ">>
       \o Trim(TextContent(h, node)) \o Str2)
  ELSE IF tag = "p" THEN
    (IF ~kids.ok THEN Throw
     ELSE IF Trim(kids.s) # <<>> THEN Ok(<<NL>> \o Trim(kids.s) \o Str2)
     ELSE Ok(<<>>))
  ELSE IF tag = "br" THEN Ok(<<NL>>)
  ELSE IF tag = "hr" THEN Ok(<<NL, "-", "-", "-", NL, NL>>)
  ELSE IF tag = "img" THEN
    LET src == IF h[node].attrs.src # "" THEN h[node].attrs.src
               ELSE h[node].attrs.dsrc
        alt == h[node].attrs.alt
        fullSrc == Absolutize(src)
    IN IF src = "" THEN Ok(<<>>)
       ELSE IF fullSrc = "TypeError" THEN Throw
       ELSE Ok(<<NL, "!", "[">> \o alt \o <<"]", "(", fullSrc, ")">> \o Str2)
  ELSE IF tag = "a" THEN
    LET href == h[node].attrs.href
        fullHref == Absolutize(href)
    IN IF ~kids.ok THEN Throw
       ELSE IF href = "" THEN kids
       ELSE IF fullHref = "TypeError" THEN Throw
       ELSE Ok(<<"[">> \o kids.s \o <<"]", "(", fullHref, ")">>)
  ELSE IF tag \in {"strong", "b"} THEN
    (IF ~kids.ok THEN Throw ELSE Ok(<<"*", "*">> \o kids.s \o <<"*", "*">>))
  ELSE IF tag \in {"em", "i"} THEN
    (IF ~kids.ok THEN Throw ELSE Ok(<<"*">> \o kids.s \o <<"*">>))
  ELSE IF tag = "code" THEN
    Ok(<<BT>> \o Trim(TextContent(h, node)) \o <<BT>>)
  ELSE IF tag = "pre" THEN
    LET code == querySelector(h, node, {Tag("code")})
        codeText == IF code # Null THEN TextContent(h, code)
                    ELSE TextContent(h, node)
    IN Ok(<<NL, BT, BT, BT, NL>> \o Trim(codeText)
          \o <<NL, BT, BT, BT, NL, NL>>)
  ELSE IF tag = "blockquote" THEN
    (IF ~kids.ok THEN Throw
     ELSE LET lines == SplitNL(Trim(kids.s), 1, <<>>)
          IN Ok(Join([i \in 1..Len(lines) |-> <<">", " ">> \o lines[i]],
                     <<NL>>) \o Str2))
  ELSE IF tag \in {"ul", "ol"} THEN
    LET isOrdered == tag = "ol"
        items == ScopeChildren(h, node, "li")
        Prefix(idx) == IF isOrdered THEN Decimal(idx) \o <<".", " ">>
                       ELSE <<"-", " ">>
        rs == [i \in 1..Len(items) |->
                 ProcessChildren(h, items[i], listLevel + 1)]
        Item(i) == <<NL>> \o Rep(" ", 2 * listLevel) \o Prefix(i)
                   \o Trim(rs[i].s)
    IN IF \E i \in 1..Len(items) : ~rs[i].ok THEN Throw
       ELSE Ok(Concat([i \in 1..Len(items) |-> Item(i)]) \o Str2)
  ELSE IF tag = "li" THEN Ok(<<>>)
  ELSE IF tag \in {"div", "section", "article", "main"} THEN kids
  ELSE IF tag = "table" THEN Ok(convertTableToMarkdown(h, node))
  ELSE kids

\* CollapseNewlines with the pattern /\n{4,}/: a run of exactly three stays
CollapseNewlinesFrom4(s) ==
  LET InRun4(i) ==
        \E j \in (i - 3)..i :
          j >= 1 /\ j + 3 <= Len(s) /\ \A k \in j..(j + 3) : s[k] = NL
      Kept(i) == ~(InRun4(i) /\ i > 2 /\ s[i - 1] = NL /\ s[i - 2] = NL)
      idx == SelectSeq([i \in 1..Len(s) |-> i], Kept)
  IN [j \in 1..Len(idx) |-> s[idx[j]]]

\* markdown.replace(/\n{3,}/g, "\n\n"): every maximal run of three or more
\* newlines becomes two, i.e. a newline is kept unless two newlines of the
\* same run already precede it
CollapseNewlines(s) ==
  LET Kept(i) == ~(i > 2 /\ s[i] = NL /\ s[i - 1] = NL /\ s[i - 2] = NL)
      idx == SelectSeq([i \in 1..Len(s) |-> i], Kept)
  IN [j \in 1..Len(idx) |-> s[idx[j]]]

\* htmlToMarkdown(element); heap is the node store after the call
htmlToMarkdown(h, element) ==
  IF element = Null THEN [ok |-> TRUE, s |-> <<>>, heap |-> h]
  ELSE With(cloneNode(h, element), LAMBDA clone :
         With(processNode(clone.heap, clone.node, 0), LAMBDA markdown :
           IF ~markdown.ok
           THEN [ok |-> FALSE, s |-> <<>>, heap |-> clone.heap]
           ELSE [ok |-> TRUE, s |-> Trim(CollapseNewlines(markdown.s)),
                 heap |-> clone.heap]))

(***************************************************************************)
(* Content Scorer.                                                         *)
(***************************************************************************)
\* scoreContentNode without the final Math.max(0, score)
scoreContentNodeUnclamped(h, node) ==
  LET textLength == Len(Trim(TextContent(h, node)))
      s1 == IF textLength > 500 THEN 10 ELSE 0
      s2 == IF textLength > 1000 THEN s1 + 10 ELSE s1
      s3 == IF textLength > 2000 THEN s2 + 10 ELSE s2
      paragraphs == Len(querySelectorAll(h, node, {Tag("p")}))
      s4 == s3 + paragraphs * 2
      s5 == IF querySelector(h, node, {Tag("h1"), Tag("h2"), Tag("h3")}) # Null
            THEN s4 + 5 ELSE s4
      links == Len(querySelectorAll(h, node, {Tag("a")}))
      s6 == IF links * 50 > textLength THEN s5 - 10 ELSE s5
  IN IF querySelector(h, node,
           {Tag("form"), Tag("input"), Tag("select"),
            Tag("textarea"), Tag("button")}) # Null
     THEN s6 - 20 ELSE s6

\* scoreContentNode without the penalty for forms and inputs
scoreContentNodeNoFormPenalty(h, node) ==
  LET textLength == Len(Trim(TextContent(h, node)))
      s1 == IF textLength > 500 THEN 10 ELSE 0
      s2 == IF textLength > 1000 THEN s1 + 10 ELSE s1
      s3 == IF textLength > 2000 THEN s2 + 10 ELSE s2
      paragraphs == Len(querySelectorAll(h, node, {Tag("p")}))
      s4 == s3 + paragraphs * 2
      s5 == IF querySelector(h, node, {Tag("h1"), Tag("h2"), Tag("h3")}) # Null
            THEN s4 + 5 ELSE s4
      links == Len(querySelectorAll(h, node, {Tag("a")}))
      s6 == IF links * 50 > textLength THEN s5 - 10 ELSE s5
      s7 == IF querySelector(h, node,
                 {Tag("form"), Tag("input"), Tag("select"),
                  Tag("textarea"), Tag("button")}) # Null
            THEN s6 ELSE s6
  IN IF s7 > 0 THEN s7 ELSE 0

\* scoreContentNode with a penalty of 10 for forms and inputs
scoreContentNodeFormPenalty10(h, node) ==
  LET textLength == Len(Trim(TextContent(h, node)))
      s1 == IF textLength > 500 THEN 10 ELSE 0
      s2 == IF textLength > 1000 THEN s1 + 10 ELSE s1
      s3 == IF textLength > 2000 THEN s2 + 10 ELSE s2
      paragraphs == Len(querySelectorAll(h, node, {Tag("p")}))
      s4 == s3 + paragraphs * 2
      s5 == IF querySelector(h, node, {Tag("h1"), Tag("h2"), Tag("h3")}) # Null
            THEN s4 + 5 ELSE s4
      links == Len(querySelectorAll(h, node, {Tag("a")}))
      s6 == IF links * 50 > textLength THEN s5 - 10 ELSE s5
      s7 == IF querySelector(h, node,
                 {Tag("form"), Tag("input"), Tag("select"),
                  Tag("textarea"), Tag("button")}) # Null
            THEN s6 - 10 ELSE s6
  IN IF s7 > 0 THEN s7 ELSE 0

\* scoreContentNode with `score -= paragraphs * 2`
scoreContentNodeParagraphsSubtracted(h, node) ==
  LET textLength == Len(Trim(TextContent(h, node)))
      s1 == IF textLength > 500 THEN 10 ELSE 0
      s2 == IF textLength > 1000 THEN s1 + 10 ELSE s1
      s3 == IF textLength > 2000 THEN s2 + 10 ELSE s2
      paragraphs == Len(querySelectorAll(h, node, {Tag("p")}))
      s4 == s3 - paragraphs * 2
      s5 == IF querySelector(h, node, {Tag("h1"), Tag("h2"), Tag("h3")}) # Null
            THEN s4 + 5 ELSE s4
      links == Len(querySelectorAll(h, node, {Tag("a")}))
      s6 == IF links * 50 > textLength THEN s5 - 10 ELSE s5
      s7 == IF querySelector(h, node,
                 {Tag("form"), Tag("input"), Tag("select"),
                  Tag("textarea"), Tag("button")}) # Null
            THEN s6 - 20 ELSE s6
  IN IF s7 > 0 THEN s7 ELSE 0

scoreContentNode(h, node) ==
  LET textLength == Len(Trim(TextContent(h, node)))
      s1 == IF textLength > 500 THEN 10 ELSE 0
      s2 == IF textLength > 1000 THEN s1 + 10 ELSE s1
      s3 == IF textLength > 2000 THEN s2 + 10 ELSE s2
      paragraphs == Len(querySelectorAll(h, node, {Tag("p")}))
      s4 == s3 + paragraphs * 2
      s5 == IF querySelector(h, node, {Tag("h1"), Tag("h2"), Tag("h3")}) # Null
            THEN s4 + 5 ELSE s4
      links == Len(querySelectorAll(h, node, {Tag("a")}))
      \* links > textLength / 50, a comparison of reals
      s6 == IF links * 50 > textLength THEN s5 - 10 ELSE s5
      s7 == IF querySelector(h, node,
                 {Tag("form"), Tag("input"), Tag("select"),
                  Tag("textarea"), Tag("button")}) # Null
            THEN s6 - 20 ELSE s6
  IN IF s7 > 0 THEN s7 ELSE 0

(***************************************************************************)
(* Candidate Locator.                                                      *)
(***************************************************************************)
ArticleSelectors ==
  << Tag("article"), Role("article"), Class("post-content"),
     Class("article-content"), Class("entry-content"), Class("post-body"),
     Desc(Class("content"), Tag("article")),
     Desc(Tag("main"), Tag("article")) >>

\* the candidates pushed by the selector loop, in push order
SelectorCandidates(h) ==
  LET PerSelector(i) ==
        LET els == querySelectorAll(h, Document, {ArticleSelectors[i]})
            scored == [j \in 1..Len(els) |->
                         [node |-> els[j],
                          score |-> scoreContentNode(h, els[j])]]
        IN SelectSeq(scored, LAMBDA c : c.score > 0)
  IN Concat([i \in 1..Len(ArticleSelectors) |-> PerSelector(i)])

\* the candidates pushed by the div loop, in push order
\* the div candidates pushed in reverse document order
DivCandidatesReversed(h) ==
  LET allDivs == querySelectorAll(h, Document, {Tag("div")})
      big == SelectSeq(allDivs,
               LAMBDA div : /\ querySelector(h, div, {Tag("p")}) # Null
                            /\ Len(Trim(TextContent(h, div))) > 500)
  IN [j \in 1..Len(big) |->
        [node |-> big[Len(big) + 1 - j],
         score |-> scoreContentNode(h, big[Len(big) + 1 - j])]]

DivCandidates(h) ==
  LET allDivs == querySelectorAll(h, Document, {Tag("div")})
      big == SelectSeq(allDivs,
               LAMBDA div : /\ querySelector(h, div, {Tag("p")}) # Null
                            /\ Len(Trim(TextContent(h, div))) > 500)
  IN [j \in 1..Len(big) |->
        [node |-> big[j], score |-> scoreContentNode(h, big[j])]]

Candidates(h) == SelectorCandidates(h) \o DivCandidates(h)

\* a descending sort that puts a later candidate before earlier ones of the
\* same score
RECURSIVE SortByScoreUnstable(_)
SortByScoreUnstable(cs) ==
  IF cs = <<>> THEN <<>>
  ELSE With(SortByScoreUnstable(SubSeq(cs, 1, Len(cs) - 1)), LAMBDA sorted :
         LET c == cs[Len(cs)]
             before == SelectSeq(sorted, LAMBDA d : d.score > c.score)
             after == SelectSeq(sorted, LAMBDA d : d.score <= c.score)
         IN before \o <<c>> \o after)

\* candidates.sort((a, b) => b.score - a.score): Array.prototype.sort is
\* stable, so equal scores keep their push order
RECURSIVE SortByScore(_)
SortByScore(cs) ==
  IF cs = <<>> THEN <<>>
  ELSE With(SortByScore(SubSeq(cs, 1, Len(cs) - 1)), LAMBDA sorted :
         LET c == cs[Len(cs)]
             before == SelectSeq(sorted, LAMBDA d : d.score >= c.score)
             after == SelectSeq(sorted, LAMBDA d : d.score < c.score)
         IN before \o <<c>> \o after)

findArticleNode(h) ==
  With(Candidates(h), LAMBDA pushed :
    With(SortByScore(pushed), LAMBDA candidates :
      IF Len(candidates) > 0 THEN candidates[1].node ELSE Null))

(***************************************************************************)
(* Sanitizer.                                                              *)
(***************************************************************************)
UnwantedSelectors ==
  << Tag("nav"), Tag("header"), Tag("footer"), Tag("aside"),
     Class("sidebar"), Class("navigation"), Class("menu"),
     Class("comments"), Class("comment-form"), Class("related-posts"),
     Class("share-buttons"), Class("social-share"),
     Tag("script"), Tag("style"), Tag("noscript"), Tag("iframe"),
     Class("advertisement"), Class("ad") >>

RECURSIVE RemoveAll(_, _, _)
\* elements.forEach(el => el.remove())
RemoveAll(h, els, i) ==
  IF i > Len(els) THEN h
  ELSE With(Remove(h, els[i]), LAMBDA h1 : RemoveAll(h1, els, i + 1))

RECURSIVE RemoveUnwantedFrom(_, _, _)
\* unwantedSelectors.forEach(...), from the i-th selector on
RemoveUnwantedFrom(h, container, i) ==
  IF i > Len(UnwantedSelectors) THEN h
  ELSE With(querySelectorAll(h, container, {UnwantedSelectors[i]}),
            LAMBDA elements :
              With(RemoveAll(h, elements, 1),
                   LAMBDA h1 : RemoveUnwantedFrom(h1, container, i + 1)))

RECURSIVE RemoveFirstMatchFrom(_, _, _)
\* the removal loop with querySelector in place of querySelectorAll
RemoveFirstMatchFrom(h, container, i) ==
  IF i > Len(UnwantedSelectors) THEN h
  ELSE With(querySelector(h, container, {UnwantedSelectors[i]}),
            LAMBDA el :
              With(IF el = Null THEN h ELSE Remove(h, el),
                   LAMBDA h1 : RemoveFirstMatchFrom(h1, container, i + 1)))

\* removeUnwantedElements that removes only the first match of a selector
removeUnwantedElementsFirstMatch(h, container) ==
  RemoveFirstMatchFrom(h, container, 1)

\* removeUnwantedElements(container): the heap after the removals
removeUnwantedElements(h, container) == RemoveUnwantedFrom(h, container, 1)

(***************************************************************************)
(* extractArticle.                                                         *)
(***************************************************************************)
ContainerSelectors ==
  << Tag("article"), Role("article"), Class("post-content"),
     Class("article-content"), Class("entry-content"), Class("post-body"),
     Class("content"), Tag("main"), Id("content"), Class("markdown-body") >>

\* Method 2 with the test `length >= 200`
RECURSIVE FirstContainerFrom200(_, _)
FirstContainerFrom200(h, i) ==
  IF i > Len(ContainerSelectors) THEN Null
  ELSE LET element == querySelector(h, Document, {ContainerSelectors[i]})
       IN IF element # Null /\ Len(Trim(TextContent(h, element))) >= 200
          THEN element
          ELSE FirstContainerFrom200(h, i + 1)

RECURSIVE FirstContainer(_, _)
\* Method 2: the first selector whose first match has more than 200
\* characters of trimmed text
FirstContainer(h, i) ==
  IF i > Len(ContainerSelectors) THEN Null
  ELSE LET element == querySelector(h, Document, {ContainerSelectors[i]})
       IN IF element # Null /\ Len(Trim(TextContent(h, element))) > 200
          THEN element
          ELSE FirstContainer(h, i + 1)

\* the result of extractArticle() on the page h:
\*   ok      FALSE when the call threw
\*   method  which of the three methods chose the content element
\*   source  the content element handed to htmlToMarkdown (Null if none)
\*   content the Markdown
\*   heap    the node store when the call returns
\* lines 74-81, with the content element that `method` chose
Converted(h, method, contentElement) ==
  With(htmlToMarkdown(h, contentElement), LAMBDA markdown :
    [ok |-> markdown.ok, method |-> method, source |-> contentElement,
     title |-> IF DocumentTitle # <<>> THEN DocumentTitle
               ELSE <<"U", "n", "t", "i", "t", "l", "e", "d">>,
     url |-> PageUrl, content |-> markdown.s, heap |-> markdown.heap])

\* Method 3 without the sanitization of the clone
BodyFallbackUnsanitized(h, body) ==
  IF body = Null THEN Converted(h, "none", Null)
  ELSE With(cloneNode(h, body), LAMBDA clone :
         Converted(clone.heap, "body", clone.node))

\* Method 3
BodyFallback(h, body) ==
  IF body = Null THEN Converted(h, "none", Null)
  ELSE With(cloneNode(h, body), LAMBDA clone :
         With(removeUnwantedElements(clone.heap, clone.node), LAMBDA cleaned :
           Converted(cleaned, "body", clone.node)))

extractArticle(h) ==
  With(findArticleNode(h), LAMBDA article :
    IF article # Null THEN Converted(h, "article", article)
    ELSE With(FirstContainer(h, 1), LAMBDA container :
           IF container # Null THEN Converted(h, "container", container)
           ELSE With(Body(h), LAMBDA body : BodyFallback(h, body))))

(***************************************************************************)
(* The documents.  A page is <html><head/><body> blocks </body></html>;    *)
(* the blocks are drawn from a catalogue.                                  *)
(***************************************************************************)
Txt(n) == T(Rep("a", n))

WithHref(ref) == [NoAttrs EXCEPT !.href = ref]
WithSrc(ref, alt) == [NoAttrs EXCEPT !.src = ref, !.alt = alt]
WithClass(c) == [NoAttrs EXCEPT !.class = {c}]

\* blocks that exercise the dispatch of processNode
MdBlocks ==
  { T(<<" ", "a", " ">>),
    T(<<" ", NL>>),
    T(<<"a", NL, NL, NL, "b">>),
    E("h2", <<T(<<" ", "a", " ">>)>>),
    E("p", <<T(<<"a">>), E("strong", <<T(<<"b">>)>>)>>),
    E("p", <<T(<<" ">>)>>),
    E("br", <<>>),
    E("hr", <<>>),
    EA("img", WithSrc("/c", <<"x">>), <<>>),
    EA("img", [NoAttrs EXCEPT !.dsrc = "img.png"], <<>>),
    EA("a", WithHref("https://x.com/y"), <<E("em", <<T(<<"a">>)>>)>>),
    E("a", <<T(<<"b">>)>>),
    E("ul", <<E("li", <<T(<<"a">>),
                        E("ul", <<E("li", <<T(<<"b">>)>>)>>)>>),
              E("li", <<E("p", <<T(<<"b">>)>>)>>)>>),
    E("ol", <<E("li", <<T(<<"a">>)>>), T(<<"b">>), E("li", <<>>)>>),
    E("li", <<T(<<"a">>)>>),
    E("blockquote", <<E("p", <<T(<<"a">>)>>), E("p", <<T(<<"b">>)>>)>>),
    E("pre", <<E("code", <<T(<<" ", "a", NL, NL, NL, "b", " ">>)>>)>>),
    E("code", <<T(<<" ", "a", " ">>)>>),
    E("table", <<E("tr", <<E("th", <<T(<<"A">>)>>), E("th", <<T(<<"B">>)>>)>>),
                 E("tr", <<E("td", <<T(<<"1">>)>>), E("td", <<T(<<"2">>)>>)>>)>>),
    E("script", <<T(<<"s">>)>>),
    E("span", <<E("br", <<>>), E("br", <<>>), E("br", <<>>), T(<<"a">>)>>),
    EA("img", WithSrc("//[", <<>>), <<>>),
    EA("a", WithHref("//["), <<T(<<"a">>)>>),
    E("ul", <<E("li", <<E("ul", <<E("li", <<T(<<"c">>)>>)>>)>>)>>),
    E("h2", <<T(<<"a">>), E("script", <<T(<<"s">>)>>)>>),
    EA("a", WithHref("http-guide.html"), <<T(<<"a">>)>>),
    E("table", <<E("tr", <<E("th", <<T(<<"A">>)>>)>>),
                 E("tr", <<E("td", <<T(<<" ", "1">>)>>),
                           E("td", <<T(<<"2">>)>>)>>)>>),
    E("table", <<>>),
    E("span", <<E("em", <<T(<<"a">>)>>), T(<<" ", NL>>),
                E("strong", <<T(<<"b">>)>>)>>) }

\* blocks that exercise the Locator, the Scorer and the Sanitizer
ExtractBlocks ==
  { E("article", <<E("p", <<Txt(501)>>)>>),
    EA("article", [NoAttrs EXCEPT !.role = "article"],
       <<E("h1", <<Txt(1)>>), E("p", <<Txt(1001)>>)>>),
    E("article", <<Txt(300)>>),
    E("div", <<E("p", <<Txt(501)>>)>>),
    E("div", <<E("div", <<E("p", <<Txt(1001)>>), E("p", <<Txt(1000)>>)>>)>>),
    E("div", <<E("p", <<Txt(501)>>), E("form", <<E("input", <<>>)>>)>>),
    E("div", <<E("p", <<Txt(500)>>)>>),
    E("div", <<E("p", <<Txt(501)>>), E("button", <<>>)>>),
    E("div", <<E("p", <<Txt(1001)>>), E("p", <<Txt(1000)>>),
               E("form", <<>>)>>),
    E("div", <<EA("div", WithClass("post-content"),
                  <<E("p", <<Txt(501)>>)>>)>>),
    E("main", <<Txt(201)>>),
    EA("div", WithClass("content"), <<Txt(200)>>),
    EA("div", WithClass("post-body"),
       <<E("p", <<Txt(60)>>), E("a", <<>>), E("a", <<>>)>>),
    E("section", <<E("h3", <<Txt(1)>>), E("p", <<Txt(1001)>>),
                   E("a", <<Txt(1)>>), E("button", <<>>)>>),
    E("nav", <<E("p", <<Txt(3)>>)>>),
    EA("div", WithClass("ad"), <<E("script", <<T(<<"s">>)>>), Txt(2)>>),
    E("p", <<Txt(2), EA("img", WithSrc("//[", <<>>), <<>>)>>),
    EA("a", WithHref("//["), <<Txt(1)>>) }

Page(blocks) ==
  E("#document", <<E("html", <<E("head", <<>>), E("body", blocks)>>)>>)

\* a document without <body> (and without <head>), e.g. an XML document
NoBodyPage == E("#document", <<E("svg", <<T(<<"a">>)>>)>>)

EmptyHeap == [n \in {} |-> {}]

LoadDoc(tree) == LoadTree(EmptyHeap, tree)

\* the nodes reachable from the document; everything else is garbage
LivePart(h) ==
  LET live == Range(Preorder(h, Document))
  IN [n \in live |-> h[n]]

(***************************************************************************)
(* State.                                                                  *)
(*   dom   the node store of the page in the tab                           *)
(*   page  the document the tab loaded (what a reload brings back)         *)
(*   md    outcome of the last htmlToMarkdown call applied on its own      *)
(*   extr  outcome of the last extractArticle call                         *)
(*   pc        where each save request's click handler stands             *)
(*   listeners the onMessage listeners content.js has registered in the    *)
(*             page, one per execution of the script                       *)
(*   csQueue   extractArticle messages on their way to the tab's listeners  *)
(*   bgQueue   downloadArticle messages on their way to the background     *)
(*   dlPending chrome.downloads.download calls whose callback is due       *)
(*   dlLog     the chrome.downloads.download calls made                    *)
(*   answered  the sendResponse calls of the background                    *)
(*   notes     the notifications shown in the page                         *)
(*   timers    notification elements waiting for their removal timeout     *)
(*   extracted per request, how often extractArticle ran for it            *)
(*   reloads   how often the tab was reloaded                              *)
(***************************************************************************)
VARIABLES dom, page, md, extr, pc, listeners, csQueue, bgQueue, dlPending,
          dlLog, answered, notes, timers, extracted, reloads, options

vars == <<dom, page, md, extr, pc, listeners, csQueue, bgQueue, dlPending,
          dlLog, answered, notes, timers, extracted, reloads, options>>

protocolVars == <<pc, listeners, csQueue, bgQueue, dlPending, dlLog,
                  answered, notes, timers, extracted, reloads, options>>

\* one save request from each of the two places that start one: the popup's
\* Save button and the context-menu entry
Requests == {"popup", "menu"}

\* no request made, nothing in flight
\* a template is a string in which each variable, such as "{title}", is one
\* element
DefaultSubPath == <<"a", "r", "t", "i", "c", "l", "e", "s">>
DefaultFilenameTemplate == <<"{title}">>

\* the options page once DOMContentLoaded has filled the form from
\* chrome.storage.sync.get(defaultSettings), nothing having been stored:
\*   subPath, filenameTemplate         what storage.sync.get returns
\*   fieldSubPath, fieldTemplate       the values of the two inputs
\*   status, shown                     the status line and its visibility
OptionsLoaded ==
  [subPath |-> DefaultSubPath, filenameTemplate |-> DefaultFilenameTemplate,
   fieldSubPath |-> DefaultSubPath, fieldTemplate |-> DefaultFilenameTemplate,
   status |-> "", shown |-> FALSE]

ProtocolIdle ==
  /\ pc = [r \in Requests |-> "none"]
  /\ listeners = 0
  /\ csQueue = <<>>
  /\ bgQueue = <<>>
  /\ dlPending = <<>>
  /\ dlLog = {}
  /\ answered = {}
  /\ notes = {}
  /\ timers = <<>>
  /\ extracted = [r \in Requests |-> 0]
  /\ reloads = 0
  /\ options = OptionsLoaded

NoMd == [ran |-> FALSE, ok |-> TRUE, s |-> <<>>]

NoExtr ==
  [ran |-> FALSE, ok |-> TRUE, method |-> "none", source |-> Null,
   content |-> <<>>]

\* what the caller of extractArticle observes
Outcome(res) ==
  [ran |-> TRUE, ok |-> res.ok, method |-> res.method,
   source |-> res.source, content |-> res.content]

(***************************************************************************)
(* htmlToMarkdown applied to the body of a page built from MdBlocks.       *)
(***************************************************************************)
MdDocs == {Page(bs) : bs \in SeqsUpTo(MdBlocks, MaxBlocks)}

InitMd ==
  /\ page \in MdDocs
  /\ dom = LoadDoc(page)
  /\ md = NoMd
  /\ extr = NoExtr
  /\ ProtocolIdle

MdStep ==
  /\ ~md.ran
  /\ \E res \in {htmlToMarkdown(dom, Body(dom))} :
        /\ md' = [ran |-> TRUE, ok |-> res.ok, s |-> res.s]
        /\ dom' = LivePart(res.heap)
  /\ UNCHANGED <<page, extr>>
  /\ UNCHANGED protocolVars

NextMd == MdStep

SpecMd == InitMd /\ [][NextMd]_vars

(***************************************************************************)
(* extractArticle applied to a page built from ExtractBlocks.              *)
(***************************************************************************)
ExtractDocs ==
  {Page(bs) : bs \in SeqsUpTo(ExtractBlocks, MaxTop)} \cup {NoBodyPage}

InitExtract ==
  /\ page \in ExtractDocs
  /\ dom = LoadDoc(page)
  /\ md = NoMd
  /\ extr = NoExtr
  /\ ProtocolIdle

ExtractStep ==
  /\ ~extr.ran
  /\ \E res \in {extractArticle(dom)} :
        /\ extr' = Outcome(res)
        /\ dom' = LivePart(res.heap)
  /\ UNCHANGED <<page, md>>
  /\ UNCHANGED protocolVars

NextExtract == ExtractStep

SpecExtract == InitExtract /\ [][NextExtract]_vars

(***************************************************************************)
(* showNotification(message): appends a <style> to document.head and the   *)
(* notification <div> to document.body; a TypeError when the document has  *)
(* no head or no body.  node is the notification element.                  *)
(***************************************************************************)
SavedMsg ==
  <<"A", "r", "t", "i", "c", "l", "e", " ", "s", "a", "v", "e", "d", "!">>

FailedMsg ==
  <<"F", "a", "i", "l", "e", "d", " ", "t", "o", " ", "s", "a", "v", "e",
    " ", "a", "r", "t", "i", "c", "l", "e">>

HeadOf(h) ==
  LET html == h[Document].kids
      hs == IF html = <<>> THEN <<>> ELSE ScopeChildren(h, html[1], "head")
  IN IF hs = <<>> THEN Null ELSE hs[1]

\* parent.appendChild(child)
appendChild(h, parent, child) == [h EXCEPT ![parent].kids = Append(@, child)]

showNotification(h, message) ==
  With(LoadTree(h, E("div", <<T(message)>>)), LAMBDA h1 :
  With(LoadTree(h1, E("style", <<T(<<"@keyframes slideIn">>)>>)), LAMBDA h2 :
    LET notification == NextId(h)
        style == NextId(h1)
    IN IF HeadOf(h) = Null THEN [ok |-> FALSE, heap |-> h, node |-> Null]
       ELSE IF Body(h) = Null
       THEN [ok |-> FALSE,
             heap |-> LivePart(appendChild(h2, HeadOf(h), style)),
             node |-> Null]
       ELSE [ok |-> TRUE,
             heap |-> appendChild(appendChild(h2, HeadOf(h), style),
                                  Body(h), notification),
             node |-> notification]))

(***************************************************************************)
(* The click handlers of the popup (saveBtn) and of the background         *)
(* (contextMenus.onClicked).  Both read the settings, send extractArticle  *)
(* to the tab, and when that send is rejected (no listener in the tab)     *)
(* inject content.js and send once more.                                   *)
(***************************************************************************)
\* chrome.tabs.sendMessage: the message goes to every listener registered in
\* the tab
Delivered(r) == Append(csQueue, [req |-> r, to |-> listeners])

\* the handler past its last await: the popup closes its window
Finished(r) == IF r = "popup" THEN "closed" ELSE "done"

\* the handler from the click to the settlement of the first sendMessage
\* (tabs.query and storage.sync.get touch nothing another step changes)
ClickAndSend(r) ==
  /\ pc[r] = "none"
  /\ IF listeners = 0
     THEN pc' = [pc EXCEPT ![r] = "inject"] /\ UNCHANGED csQueue
     ELSE pc' = [pc EXCEPT ![r] = Finished(r)] /\ csQueue' = Delivered(r)
  /\ UNCHANGED <<dom, page, md, extr, listeners, bgQueue, dlPending, dlLog,
                 answered, notes, timers, extracted, reloads>>
  /\ UNCHANGED options

PopupClick == ClickAndSend("popup")

MenuClick == ClickAndSend("menu")

\* chrome.scripting.executeScript({files: ['content.js']}): the script runs
\* in the page and registers one more onMessage listener
Inject(r) ==
  /\ pc[r] = "inject"
  /\ listeners' = listeners + 1
  /\ pc' = [pc EXCEPT ![r] = "retry"]
  /\ UNCHANGED <<dom, page, md, extr, csQueue, bgQueue, dlPending, dlLog,
                 answered, notes, timers, extracted, reloads>>
  /\ UNCHANGED options

\* a retry whose rejection is caught and leads to another injection
RetryUntilDelivered(r) ==
  /\ pc[r] = "retry"
  /\ IF listeners = 0
     THEN pc' = [pc EXCEPT ![r] = "inject"] /\ UNCHANGED csQueue
     ELSE pc' = [pc EXCEPT ![r] = Finished(r)] /\ csQueue' = Delivered(r)
  /\ UNCHANGED <<dom, page, md, extr, listeners, bgQueue, dlPending, dlLog,
                 answered, notes, timers, extracted, reloads>>
  /\ UNCHANGED options

\* the retry is outside any try: its rejection ends the handler
Retry(r) ==
  /\ pc[r] = "retry"
  /\ IF listeners = 0
     THEN pc' = [pc EXCEPT ![r] = "rejected"] /\ UNCHANGED csQueue
     ELSE pc' = [pc EXCEPT ![r] = Finished(r)] /\ csQueue' = Delivered(r)
  /\ UNCHANGED <<dom, page, md, extr, listeners, bgQueue, dlPending, dlLog,
                 answered, notes, timers, extracted, reloads>>
  /\ UNCHANGED options

(***************************************************************************)
(* content.js: the onMessage listener.                                     *)
(***************************************************************************)
\* a JavaScript value that is a string, and the value undefined
JsString(s) == [type |-> "string", s |-> s]
Undefined == [type |-> "undefined", s |-> <<>>]

\* One run of the listener for request r on the page h, to completion:
\*   heap   the page afterwards
\*   res    what extractArticle returned (or that it threw)
\*   sent   the downloadArticle messages sent (none or one)
\*   shown  the notifications displayed (none or one)
\*   timed  the notification elements whose removal was scheduled
Listener(h, r) ==
  With(extractArticle(h), LAMBDA res :
  With(LivePart(res.heap), LAMBDA live :
  \* the try block past extractArticle: sendMessage, showNotification
  With(IF res.ok THEN showNotification(live, SavedMsg)
       ELSE [ok |-> FALSE, heap |-> live, node |-> Null], LAMBDA saved :
  \* the catch block, after extractArticle or showNotification threw
  With(IF res.ok /\ saved.ok THEN saved
       ELSE showNotification(saved.heap, FailedMsg), LAMBDA last :
    [heap |-> last.heap,
     res |-> Outcome(res),
     sent |-> IF res.ok
              THEN <<[req |-> r,
                      data |-> [title |-> res.title, url |-> res.url,
                                content |-> JsString(res.content),
                                subPath |-> DefaultSubPath,
                                filenameTemplate |->
                                  DefaultFilenameTemplate]]>>
              ELSE <<>>,
     shown |-> IF last.ok
               THEN {[req |-> r,
                      msg |-> IF res.ok /\ saved.ok THEN "saved"
                              ELSE "failed",
                      empty |-> res.content = <<>>]}
               ELSE {},
     timed |-> IF last.ok THEN <<last.node>> ELSE <<>>]))))

RECURSIVE Dispatch(_, _, _)
\* the message event of request r, dispatched to k listeners one after the
\* other; the accumulated effect of their runs
Dispatch(h, r, k) ==
  IF k = 0
  THEN [heap |-> h, res |-> extr, sent |-> <<>>, shown |-> {},
        timed |-> <<>>, runs |-> 0]
  ELSE With(Listener(h, r), LAMBDA one :
         With(Dispatch(one.heap, r, k - 1), LAMBDA rest :
           [heap |-> rest.heap,
            res |-> IF k = 1 THEN one.res ELSE rest.res,
            sent |-> one.sent \o rest.sent,
            shown |-> one.shown \cup rest.shown,
            timed |-> one.timed \o rest.timed,
            runs |-> 1 + rest.runs]))

\* the tab receives the extractArticle message of a request
CsOnMessage ==
  /\ csQueue # <<>>
  /\ \E d \in {Dispatch(dom, Head(csQueue).req, Head(csQueue).to)} :
        /\ csQueue' = Tail(csQueue)
        /\ dom' = d.heap
        /\ extr' = d.res
        /\ extracted' = [extracted EXCEPT ![Head(csQueue).req] = @ + d.runs]
        /\ bgQueue' = bgQueue \o d.sent
        /\ notes' = notes \cup d.shown
        /\ timers' = timers \o d.timed
  /\ UNCHANGED <<page, md, pc, listeners, dlPending, dlLog, answered,
                 reloads>>
  /\ UNCHANGED options

\* the timeouts of showNotification: the notification element is removed
NotificationExpire ==
  /\ timers # <<>>
  /\ dom' = LivePart(Remove(dom, Head(timers)))
  /\ timers' = Tail(timers)
  /\ UNCHANGED <<page, md, extr, pc, listeners, csQueue, bgQueue, dlPending,
                 dlLog, answered, notes, extracted, reloads>>
  /\ UNCHANGED options

\* the tab reloads: a fresh document without content script; the page's
\* listeners, pending invocations and timers are gone
Reload ==
  /\ reloads < MaxReloads
  /\ reloads' = reloads + 1
  /\ dom' = LoadDoc(page)
  /\ listeners' = 0
  /\ csQueue' = <<>>
  /\ timers' = <<>>
  /\ UNCHANGED <<page, md, extr, pc, bgQueue, dlPending, dlLog, answered,
                 notes, extracted>>
  /\ UNCHANGED options

(***************************************************************************)
(* Save requests on one tab: the click handlers and the content script.    *)
(* The downloadArticle messages pile up in bgQueue; the background's       *)
(* handling of them (SpecBg below) sends nothing back that the page or     *)
(* the click handlers read.                                                *)
(***************************************************************************)
ProtocolDocs ==
  { Page(<<>>),
    Page(<<E("p", <<T(<<"a">>)>>)>>),
    Page(<<E("p", <<T(<<"a">>), EA("img", WithSrc("//[", <<>>), <<>>)>>)>>),
    NoBodyPage }

Init ==
  /\ page \in ProtocolDocs
  /\ dom = LoadDoc(page)
  /\ md = NoMd
  /\ extr = NoExtr
  /\ ProtocolIdle

Next ==
  \/ PopupClick
  \/ MenuClick
  \/ \E r \in Requests : Inject(r)
  \/ \E r \in Requests : Retry(r)
  \/ CsOnMessage
  \/ NotificationExpire
  \/ Reload

Spec == Init /\ [][Next]_vars

(***************************************************************************)
(* background: the onMessage listener and downloadArticle.                 *)
(***************************************************************************)
\* String.prototype.replace(pattern, replacement) with a string pattern:
\* only the first occurrence is replaced
ReplaceFirst(s, pattern, replacement) ==
  IF \E i \in 1..Len(s) : s[i] = pattern
  THEN LET i == CHOOSE k \in 1..Len(s) :
                  s[k] = pattern /\ \A j \in 1..(k - 1) : s[j] # pattern
       IN SubSeq(s, 1, i - 1) \o replacement \o SubSeq(s, i + 1, Len(s))
  ELSE s

\* String.prototype.replace(/[...]/g, '-')
ReplaceEach(s, chars) ==
  [i \in 1..Len(s) |-> IF s[i] \in chars THEN "-" ELSE s[i]]

RECURSIVE ReplaceRuns(_)
\* String.prototype.replace(/\s+/g, '-')
ReplaceRuns(s) ==
  IF s = <<>> THEN <<>>
  ELSE IF Head(s) \in WhiteSpace
  THEN <<"-">> \o ReplaceRuns(TrimStart(s))
  ELSE <<Head(s)>> \o ReplaceRuns(Tail(s))

\* sanitizeFilename without the replacement of white space
sanitizeFilenameKeepSpaces(filename) ==
  LET s1 == ReplaceEach(filename, {"<", ">", ":", "\"", "/", "\\", "|", "?", "*"})
  IN SubSeq(s1, 1, IF Len(s1) < 200 THEN Len(s1) ELSE 200)

sanitizeFilename(filename) ==
  LET s1 == ReplaceEach(filename, {"<", ">", ":", "\"", "/", "\\", "|", "?", "*"})
      s2 == ReplaceRuns(s1)
  IN SubSeq(s2, 1, IF Len(s2) < 200 THEN Len(s2) ELSE 200)

\* new URL(url).hostname
Hostname(url) ==
  CASE url = PageUrl -> <<"e", "x", "a", "m", "p", "l", "e", ".", "c", "o", "m">>
    [] OTHER -> <<>>

\* the moments at which new Date() may be taken:
\*   iso     toISOString()
\*   year    getFullYear()
\*   month   getMonth(), counted from 0
\*   day     getDate()
Moments ==
  { [iso |-> <<"2", "0", "2", "4", "-", "0", "1", "-", "1", "5", "T", "1", "0", ":", "3", "0", ":", "0", "0", ".", "0", "0", "0", "Z">>, year |-> 2024, month |-> 0, day |-> 15],
    [iso |-> <<"2", "0", "2", "4", "-", "1", "1", "-", "2", "0", "T", "0", "8", ":", "0", "5", ":", "0", "9", ".", "1", "2", "3", "Z">>, year |-> 2024, month |-> 10, day |-> 20] }

\* String.prototype.split('T')[0]
BeforeT(s) ==
  IF \E i \in 1..Len(s) : s[i] = "T"
  THEN SubSeq(s, 1, (CHOOSE k \in 1..Len(s) :
                       s[k] = "T" /\ \A j \in 1..(k - 1) : s[j] # "T") - 1)
  ELSE s

\* String(n).padStart(2, '0')
PadStart2(n) == IF n < 10 THEN <<"0">> \o Decimal(n) ELSE Decimal(n)

\* String.prototype.endsWith
EndsWith(s, suffix) ==
  Len(s) >= Len(suffix)
    /\ SubSeq(s, Len(s) - Len(suffix) + 1, Len(s)) = suffix

\* lines 74-82
Filename(data, now) ==
  LET f1 == ReplaceFirst(data.filenameTemplate, "{title}",
                         sanitizeFilename(data.title))
      f2 == ReplaceFirst(f1, "{domain}", Hostname(data.url))
      f3 == ReplaceFirst(f2, "{date}", BeforeT(now.iso))
      f4 == ReplaceFirst(f3, "{datetime}",
                         BeforeT(ReplaceEach(now.iso, {":", "."})))
  IN IF EndsWith(f4, <<".", "m", "d">>) THEN f4 ELSE f4 \o <<".", "m", "d">>

\* lines 85-92
FullPath(data, now) ==
  LET p1 == ReplaceFirst(data.subPath, "{domain}", Hostname(data.url))
      p2 == ReplaceFirst(p1, "{year}", Decimal(now.year))
      p3 == ReplaceFirst(p2, "{month}", PadStart2(now.month + 1))
      p4 == ReplaceFirst(p3, "{day}", PadStart2(now.day))
  IN ReplaceFirst(p4, "{date}", BeforeT(now.iso))

\* line 94
FinalPath(data, now) ==
  IF FullPath(data, now) # <<>>
  THEN FullPath(data, now) \o <<"/">> \o Filename(data, now)
  ELSE Filename(data, now)

\* the guard without the length test
NoContentOnlyMissing(content) == content.type = "undefined"

\* !content || content.length === 0
NoContent(content) == content.type = "undefined" \/ Len(content.s) = 0

BgOnMessage ==
  /\ bgQueue # <<>>
  /\ \E now \in Moments :
     LET m == Head(bgQueue)
         call == [req |-> m.req, content |-> m.data.content,
                  filename |-> IF NoContent(m.data.content) THEN <<>>
                               ELSE FinalPath(m.data, now)]
     IN /\ bgQueue' = Tail(bgQueue)
        /\ IF NoContent(m.data.content)
           THEN \* throw new Error('No content to save'), caught by .catch
                /\ answered' = answered \cup
                     {[req |-> m.req, success |-> FALSE,
                       content |-> m.data.content]}
                /\ UNCHANGED <<dlLog, dlPending>>
           ELSE \* chrome.downloads.download(...)
                /\ dlLog' = dlLog \cup {call}
                /\ dlPending' = Append(dlPending, call)
                /\ UNCHANGED answered
  /\ UNCHANGED <<dom, page, md, extr, pc, listeners, csQueue, notes, timers,
                 extracted, reloads>>
  /\ UNCHANGED options

\* the callback of chrome.downloads.download, with or without lastError
DownloadCallback(lastError) ==
  /\ dlPending # <<>>
  /\ dlPending' = Tail(dlPending)
  /\ answered' = answered \cup
       {[req |-> Head(dlPending).req, success |-> ~lastError,
         content |-> Head(dlPending).content]}
  /\ UNCHANGED <<dom, page, md, extr, pc, listeners, csQueue, bgQueue, dlLog,
                 notes, timers, extracted, reloads>>
  /\ UNCHANGED options

\* the messages the background may receive
Contents == {Undefined, JsString(<<>>), JsString(<<"a">>)}

\* settings a user may have stored: <<subPath, filenameTemplate>>
StoredSettings ==
  { <<<<"a", "r", "t", "i", "c", "l", "e", "s", "/", "{domain}", "/", "{year}", "/", "{month}", "/">>, <<"{datetime}">>>>,
    <<<<"{date}", "/", "{day}">>, <<"{domain}", "-", "{title}", ".", "m", "d">>>>,
    <<<<"n", "o", "t", "e", "s">>, <<"{date}">>>> }

Messages ==
  {[req |-> r,
    data |-> [title |-> DocumentTitle, url |-> PageUrl, content |-> c,
              subPath |-> DefaultSubPath,
              filenameTemplate |-> DefaultFilenameTemplate]] :
     r \in Requests, c \in Contents}
  \cup
  {[req |-> "popup",
    data |-> [title |-> DocumentTitle, url |-> PageUrl,
              content |-> JsString(<<"a">>),
              subPath |-> st[1], filenameTemplate |-> st[2]]] :
     st \in StoredSettings}

InitBg ==
  /\ page = Page(<<>>)
  /\ dom = LoadDoc(page)
  /\ md = NoMd
  /\ extr = NoExtr
  /\ listeners = 0
  /\ csQueue = <<>>
  /\ pc = [r \in Requests |-> "none"]
  /\ bgQueue \in SeqsUpTo(Messages, MaxMsgs)
  /\ dlPending = <<>>
  /\ dlLog = {}
  /\ answered = {}
  /\ notes = {}
  /\ timers = <<>>
  /\ extracted = [r \in Requests |-> 0]
  /\ reloads = 0
  /\ options = OptionsLoaded

NextBg ==
  \/ BgOnMessage
  \/ \E lastError \in BOOLEAN : DownloadCallback(lastError)

SpecBg == InitBg /\ [][NextBg]_vars

(***************************************************************************)
(* The options page: the settings form and the reset button.               *)
(***************************************************************************)
\* what the user may have typed into an input of the form
FieldValues ==
  { <<>>, <<" ">>, <<" ", "a", " ">>, <<"a">>, <<"b", " ", "c">>,
    <<"{domain}", "/", "{year}">>, <<"{date}">> }

\* the user edits the two inputs
Type(subPath, filenameTemplate) ==
  /\ options' = [options EXCEPT !.fieldSubPath = subPath,
                                !.fieldTemplate = filenameTemplate]
  /\ options' # options
  /\ UNCHANGED <<dom, page, md, extr>>
  /\ UNCHANGED <<pc, listeners, csQueue, bgQueue, dlPending, dlLog, answered,
                 notes, timers, extracted, reloads>>

\* showStatus(message, type)
showStatus(o, message) == [o EXCEPT !.status = message, !.shown = TRUE]

\* the submit handler that stores the values of the inputs as they are
SubmitUntrimmed(lastError) ==
  /\ LET settings == [subPath |-> options.fieldSubPath,
                      filenameTemplate |-> options.fieldTemplate]
     IN options' =
          IF Trim(settings.subPath) = <<>>
          THEN showStatus(options, "Please enter a subfolder path")
          ELSE IF Trim(settings.filenameTemplate) = <<>>
          THEN showStatus(options, "Please enter a filename template")
          ELSE IF lastError
          THEN showStatus(options, "Error saving settings")
          ELSE showStatus([options EXCEPT
                             !.subPath = settings.subPath,
                             !.filenameTemplate = settings.filenameTemplate],
                          "Settings saved successfully!")
  /\ UNCHANGED <<dom, page, md, extr>>
  /\ UNCHANGED <<pc, listeners, csQueue, bgQueue, dlPending, dlLog, answered,
                 notes, timers, extracted, reloads>>

\* the submit handler of settingsForm, to the callback of storage.sync.set
Submit(lastError) ==
  /\ LET settings == [subPath |-> Trim(options.fieldSubPath),
                      filenameTemplate |-> Trim(options.fieldTemplate)]
     IN options' =
          IF settings.subPath = <<>>
          THEN showStatus(options, "Please enter a subfolder path")
          ELSE IF settings.filenameTemplate = <<>>
          THEN showStatus(options, "Please enter a filename template")
          ELSE IF lastError
          THEN showStatus(options, "Error saving settings")
          ELSE showStatus([options EXCEPT
                             !.subPath = settings.subPath,
                             !.filenameTemplate = settings.filenameTemplate],
                          "Settings saved successfully!")
  /\ UNCHANGED <<dom, page, md, extr>>
  /\ UNCHANGED <<pc, listeners, csQueue, bgQueue, dlPending, dlLog, answered,
                 notes, timers, extracted, reloads>>

\* the click handler of resetBtn; confirmed is the answer to confirm()
ResetClick(confirmed) ==
  /\ options' =
       IF confirmed
       THEN showStatus([options EXCEPT
                          !.fieldSubPath = DefaultSubPath,
                          !.fieldTemplate = DefaultFilenameTemplate,
                          !.subPath = DefaultSubPath,
                          !.filenameTemplate = DefaultFilenameTemplate],
                       "Settings reset to defaults")
       ELSE options
  /\ UNCHANGED <<dom, page, md, extr>>
  /\ UNCHANGED <<pc, listeners, csQueue, bgQueue, dlPending, dlLog, answered,
                 notes, timers, extracted, reloads>>

\* the timeout of showStatus hides the status line
StatusTimeout ==
  /\ options.shown
  /\ options' = [options EXCEPT !.shown = FALSE]
  /\ UNCHANGED <<dom, page, md, extr>>
  /\ UNCHANGED <<pc, listeners, csQueue, bgQueue, dlPending, dlLog, answered,
                 notes, timers, extracted, reloads>>

InitOptions ==
  /\ page = Page(<<>>)
  /\ dom = LoadDoc(page)
  /\ md = NoMd
  /\ extr = NoExtr
  /\ ProtocolIdle

NextOptions ==
  \/ \E subPath, filenameTemplate \in FieldValues :
       Type(subPath, filenameTemplate)
  \/ \E lastError \in BOOLEAN : Submit(lastError)
  \/ \E confirmed \in BOOLEAN : ResetClick(confirmed)
  \/ StatusTimeout

SpecOptions == InitOptions /\ [][NextOptions]_vars

(***************************************************************************)
(* Properties.                                                             *)
(***************************************************************************)
HasTripleNewline(s) ==
  \E i \in 1..(Len(s) - 2) : s[i] = NL /\ s[i + 1] = NL /\ s[i + 2] = NL

\* C1: the string returned by htmlToMarkdown holds no run of three or more
\* consecutive newline characters.
C1_NewlineBound == md.ran => ~HasTripleNewline(md.s)

\* before the clean-up the converted body held such a run, inside the text
C1_Witness ==
  /\ md.ran /\ md.ok
  /\ HasTripleNewline(Trim(processNode(dom, Body(dom), 0).s))
  /\ Len(md.s) > 2

NoContainerQualifies(h) ==
  \A i \in 1..Len(ContainerSelectors) :
    LET first == querySelector(h, Document, {ContainerSelectors[i]})
    IN first = Null \/ Len(Trim(TextContent(h, first))) <= 200

FirstBest(cs) ==
  CHOOSE i \in 1..Len(cs) :
    /\ \A j \in 1..Len(cs) : cs[j].score <= cs[i].score
    /\ \A j \in 1..(i - 1) : cs[j].score < cs[i].score

\* C3: with a non-empty candidate set findArticleNode returns a candidate of
\* maximal score, and among those the one encountered first.
C3_FirstBestCandidate ==
  (extr.ran /\ Candidates(dom) # <<>>)
    => /\ extr.method = "article"
       /\ extr.source = Candidates(dom)[FirstBest(Candidates(dom))].node

\* the best score is shared by two different elements and the first
\* candidate is not a best one
C3_Witness ==
  /\ extr.ran
  /\ LET cs == Candidates(dom)
     IN /\ Len(cs) >= 3
        /\ FirstBest(cs) > 1
        /\ \E j \in 1..Len(cs) :
             /\ cs[j].score = cs[FirstBest(cs)].score
             /\ cs[j].node # cs[FirstBest(cs)].node

\* a reference the URL parser rejects
Unresolvable(ref) ==
  ref # "" /\ ~StartsWithHttp(ref) /\ NewURL(ref, PageUrl) = "TypeError"

ImgSrc(n) == IF n.attrs.src # "" THEN n.attrs.src ELSE n.attrs.dsrc

HasUnresolvable(h) ==
  \E n \in DOMAIN h :
    \/ h[n].tag = "img" /\ Unresolvable(ImgSrc(h[n]))
    \/ h[n].tag = "a" /\ Unresolvable(h[n].attrs.href)

\* the page with every unresolvable image source and link target taken away
WithoutUnresolvable(h) ==
  [n \in DOMAIN h |->
     IF h[n].tag = "img" /\ Unresolvable(ImgSrc(h[n]))
     THEN [h[n] EXCEPT !.attrs.src = "", !.attrs.dsrc = ""]
     ELSE IF h[n].tag = "a" /\ Unresolvable(h[n].attrs.href)
     THEN [h[n] EXCEPT !.attrs.href = ""]
     ELSE h[n]]

\* C4: a conversion that meets an unresolvable image or link completes; the
\* image is omitted, the link is its plain text, the rest is as usual.
C4_UnresolvableDropped ==
  (md.ran /\ HasUnresolvable(dom))
    => /\ md.ok
       /\ md.s = htmlToMarkdown(WithoutUnresolvable(dom), Body(dom)).s

\* C5: extractArticle returns a result for every document, it never throws.
C5_NeverThrows == extr.ran => extr.ok

\* C6: "Article saved!" is never shown for a request whose extracted
\* content is empty.
C6_NoSavedOnEmpty == \A n \in notes : n.empty => n.msg # "saved"

EmptyOrMissing(content) == content \in {Undefined, JsString(<<>>)}

\* C7: a downloadArticle message with empty or missing content starts no
\* download and is answered with success: false.
C7_NoDownloadOnEmpty ==
  [][ (/\ bgQueue # <<>>
       /\ bgQueue' = Tail(bgQueue)
       /\ EmptyOrMissing(Head(bgQueue).data.content))
      => /\ dlLog' = dlLog
         /\ dlPending' = dlPending
         /\ [req |-> Head(bgQueue).req, success |-> FALSE,
             content |-> Head(bgQueue).data.content] \in answered' ]_vars

\* both kinds of contentless message were handled and answered, and nothing
\* was downloaded
C7_Witness ==
  /\ bgQueue = <<>> /\ dlLog = {}
  /\ \E a \in answered : a.content = Undefined /\ ~a.success
  /\ \E a \in answered : a.content = JsString(<<>>) /\ ~a.success

SentFor(r) == Cardinality({i \in 1..Len(bgQueue) : bgQueue[i].req = r})

InFlight(r) == \E i \in 1..Len(csQueue) : csQueue[i].req = r

\* C8: a save request runs extractArticle exactly once and sends at most
\* one downloadArticle message.
C8_ExtractedOnce ==
  \A r \in Requests :
    /\ extracted[r] <= 1
    /\ SentFor(r) <= 1
    /\ (pc[r] \in {"closed", "done"} /\ ~InFlight(r) /\ reloads = 0)
         => extracted[r] = 1

\* C9: extractArticle leaves the live document tree as it was.
C9_LiveTreeUnchanged == [][ExtractStep => dom' = dom]_vars

UnwantedIn(h, root) ==
  \E i \in 1..Len(UnwantedSelectors) :
    querySelectorAll(h, root, {UnwantedSelectors[i]}) # <<>>

\* the fallback ran on a body holding unwanted elements, which the page
\* still has
C9_Witness ==
  /\ extr.ran /\ extr.method = "body"
  /\ UnwantedIn(dom, Body(dom))

\* the terms of the score
TextLen(h, n) == Len(Trim(TextContent(h, n)))

Among(h, n, tags) == {d \in Range(Descendants(h, n)) : h[d].tag \in tags}

ScoreT(h, n) ==
  IF TextLen(h, n) > 2000 THEN 30
  ELSE IF TextLen(h, n) > 1000 THEN 20
  ELSE IF TextLen(h, n) > 500 THEN 10
  ELSE 0

ScoreP(h, n) == Cardinality(Among(h, n, {"p"}))

ScoreH(h, n) == IF Among(h, n, {"h1", "h2", "h3"}) # {} THEN 5 ELSE 0

ScoreL(h, n) ==
  IF Cardinality(Among(h, n, {"a"})) * 50 > TextLen(h, n) THEN 10 ELSE 0

ScoreF(h, n) ==
  IF Among(h, n, {"form", "input", "select", "textarea", "button"}) # {}
  THEN 20 ELSE 0

RawScore(h, n) ==
  ScoreT(h, n) + 2 * ScoreP(h, n) + ScoreH(h, n) - ScoreL(h, n) - ScoreF(h, n)

\* C10: scoreContentNode is max(0, t + 2p + h - l - f), a non-negative
\* integer, for every element.
C10_ScoreFormula ==
  \A n \in DOMAIN dom :
    IsElement(dom, n) =>
      /\ scoreContentNode(dom, n) \in Nat
      /\ scoreContentNode(dom, n) =
           (IF RawScore(dom, n) > 0 THEN RawScore(dom, n) ELSE 0)

\* the extraction scored a candidate whose penalties outweigh its bonuses,
\* and one with every bonus
C10_Witness ==
  /\ extr.ran
  /\ \E i \in 1..Len(Candidates(dom)) :
       RawScore(dom, Candidates(dom)[i].node) < 0
  /\ \E i \in 1..Len(Candidates(dom)) :
       LET n == Candidates(dom)[i].node
       IN ScoreT(dom, n) = 30 /\ ScoreP(dom, n) > 0

LinkCount(h, n) == Cardinality(Among(h, n, {"a"}))

\* equal in text length, paragraph count, heading presence and link count
SameMeasures(h, a, b) ==
  /\ TextLen(h, a) = TextLen(h, b)
  /\ ScoreP(h, a) = ScoreP(h, b)
  /\ ScoreH(h, a) = ScoreH(h, b)
  /\ LinkCount(h, a) = LinkCount(h, b)

HasForm(h, n) == Among(h, n, {"form"}) # {}

HasControl(h, n) ==
  Among(h, n, {"form", "input", "select", "textarea", "button"}) # {}

CandidateNodes(h) == {Candidates(h)[i].node : i \in 1..Len(Candidates(h))}

\* C11 as claimed: of two candidates with equal measures, the one that
\* contains a form element is never the Locator's result when the other
\* contains no form element.
C11_FormNeverPreferred ==
  extr.ran =>
    \A a, b \in CandidateNodes(dom) :
      (SameMeasures(dom, a, b) /\ HasForm(dom, a) /\ ~HasForm(dom, b))
        => extr.source # a

\* C11 as amended: of two candidates with equal measures, the one that
\* contains a form control (form, input, select, textarea, button) is never
\* the Locator's result when the other contains none.
C11_ControlNeverPreferred ==
  extr.ran =>
    \A a, b \in CandidateNodes(dom) :
      (SameMeasures(dom, a, b) /\ HasControl(dom, a) /\ ~HasControl(dom, b))
        => extr.source # a

\* the candidate with the form was pushed first, and the one without it
\* was returned
C11_Witness ==
  /\ extr.ran
  /\ \E i, j \in 1..Len(Candidates(dom)) :
       LET a == Candidates(dom)[i].node
           b == Candidates(dom)[j].node
       IN /\ i < j
          /\ SameMeasures(dom, a, b)
          /\ HasForm(dom, a) /\ ~HasControl(dom, b)
          /\ extr.source = b

Elements(h) == {n \in DOMAIN h : IsElement(h, n)}

\* C12 as claimed: of two nodes with equal measures of which only one
\* contains a form element, the one without it scores at least 20 more.
C12_FormCostsTwenty ==
  extr.ran =>
  \A a, b \in Elements(dom) :
    (SameMeasures(dom, a, b) /\ HasForm(dom, a) /\ ~HasForm(dom, b))
      => scoreContentNode(dom, b) - scoreContentNode(dom, a) >= 20

\* C12 as amended: of two nodes with equal measures of which only one
\* contains a form control, the one with the control scores
\* max(0, score of the other - 20); the difference is at least 20 exactly
\* when the node without controls scores at least 20.
C12_ControlCostsTwentyClamped ==
  extr.ran =>
  \A a, b \in Elements(dom) :
    (SameMeasures(dom, a, b) /\ HasControl(dom, a) /\ ~HasControl(dom, b))
      => LET sa == scoreContentNode(dom, a)
             sb == scoreContentNode(dom, b)
         IN /\ sa = (IF sb > 20 THEN sb - 20 ELSE 0)
            /\ (sb - sa >= 20) <=> (sb >= 20)

\* a scored page holds such a pair whose scores are 20 apart, both positive
C12_Witness ==
  /\ extr.ran
  /\ \E a, b \in Elements(dom) :
       /\ SameMeasures(dom, a, b)
       /\ HasControl(dom, a) /\ ~HasControl(dom, b)
       /\ scoreContentNode(dom, a) > 0
       /\ scoreContentNode(dom, b) = scoreContentNode(dom, a) + 20

\* equal in everything the score reads but the paragraph count
SameButParagraphs(h, a, b) ==
  /\ TextLen(h, a) = TextLen(h, b)
  /\ ScoreH(h, a) = ScoreH(h, b)
  /\ LinkCount(h, a) = LinkCount(h, b)
  /\ HasControl(h, a) <=> HasControl(h, b)

\* C13: of two nodes that differ only in the number of descendant p
\* elements, the one with strictly more of them scores at least as much.
C13_MoreParagraphsNotLess ==
  extr.ran =>
    \A a, b \in Elements(dom) :
      (SameButParagraphs(dom, a, b) /\ ScoreP(dom, a) > ScoreP(dom, b))
        => scoreContentNode(dom, a) >= scoreContentNode(dom, b)

\* a scored page holds such a pair, and the extra paragraphs raised the score
C13_Witness ==
  /\ extr.ran
  /\ \E a, b \in Elements(dom) :
       /\ SameButParagraphs(dom, a, b)
       /\ ScoreP(dom, a) > ScoreP(dom, b)
       /\ scoreContentNode(dom, a) =
            scoreContentNode(dom, b) + 2 * (ScoreP(dom, a) - ScoreP(dom, b))

Lines(s) == SplitNL(s, 1, <<>>)

Blank(line) == Trim(line) = <<>>

\* line i of the text stands alone: a blank line, or nothing, on either side
OwnLine(lines, i) ==
  /\ i = 1 \/ Blank(lines[i - 1])
  /\ i = Len(lines) \/ Blank(lines[i + 1])

Headings(h, root) ==
  {n \in Range(Descendants(h, root)) : HeadingLevel(h[n].tag) > 0}

\* C14: every h1..h6 of the converted subtree with text T gives a line made
\* of level-many '#', one space and trim(T), with blank lines around it.
C14_HeadingOnOwnLine ==
  (md.ran /\ md.ok) =>
    \A n \in Headings(dom, Body(dom)) :
      \E i \in 1..Len(Lines(md.s)) :
        /\ Lines(md.s)[i] = Hashes(HeadingLevel(dom[n].tag)) \o <<" ">>
                              \o Trim(TextContent(dom, n))
        /\ OwnLine(Lines(md.s), i)

\* the items of the unordered lists nested in an item of a top-level
\* unordered list, as <<parent item, child item>>
NestedItems(h) ==
  {<<li, c>> \in (DOMAIN h) \X (DOMAIN h) :
     /\ h[c].tag = "li" /\ h[li].tag = "li"
     /\ HasParent(h, c) /\ h[ParentOf(h, c)].tag = "ul"
     /\ ParentOf(h, ParentOf(h, c)) = li
     /\ h[ParentOf(h, li)].tag = "ul"
     /\ ParentOf(h, ParentOf(h, li)) = Body(h)}

StartsWith(s, prefix) ==
  Len(s) >= Len(prefix) /\ SubSeq(s, 1, Len(prefix)) = prefix

\* C15: in a two-level unordered list the marker of every child item is on
\* a line of its own, two spaces to the right of its parent item's marker
\* (which is at the start of an earlier line).
C15_ChildIndentedTwo ==
  (md.ran /\ md.ok) =>
    \A pair \in NestedItems(dom) :
      \A k \in 1..Len(dom[pair[2]].kids) : IsText(dom, dom[pair[2]].kids[k])
      => \E i, j \in 1..Len(Lines(md.s)) :
           /\ i < j
           /\ StartsWith(Lines(md.s)[i], <<"-", " ">>)
           /\ Lines(md.s)[j] = <<" ", " ", "-", " ">>
                                 \o Trim(TextContent(dom, pair[2]))

BlockTags ==
  {"h1", "h2", "h3", "h4", "h5", "h6", "p", "ul", "ol", "blockquote", "pre",
   "hr", "table"}

\* the block elements directly under the converted root
TopBlocks(h) ==
  {h[Body(h)].kids[k] : k \in 1..Len(h[Body(h)].kids)}
    \cap {n \in DOMAIN h : h[n].tag \in BlockTags}

\* the text of the fragment a node contributes to the final Markdown
Fragment(h, n) == Trim(CollapseNewlines(processNode(h, n, 0).s))

\* f occurs in s with a blank line (or an end of s) on both sides
OccursPadded(s, f) ==
  \E i \in 1..(Len(s) - Len(f) + 1) :
    /\ SubSeq(s, i, i + Len(f) - 1) = f
    /\ i = 1 \/ (i >= 3 /\ s[i - 1] = NL /\ s[i - 2] = NL)
    /\ LET j == i + Len(f)
       IN j = Len(s) + 1 \/ (j + 1 <= Len(s) /\ s[j] = NL /\ s[j + 1] = NL)

\* C16: every block fragment (heading, paragraph, list, blockquote, code
\* block, horizontal rule, table) of the converted root is separated by a
\* blank line from what precedes it and from what follows it in the output.
C16_BlocksPadded ==
  (md.ran /\ md.ok) =>
    \A b \in TopBlocks(dom) :
      Fragment(dom, b) # <<>> => OccursPadded(md.s, Fragment(dom, b))

SkippedTags == {"script", "style", "noscript", "iframe"}

TextNodes(h, root) == {n \in Range(Descendants(h, root)) : IsText(h, n)}

\* text nodes of the subtree that sit inside a skipped element
HiddenTexts(h, root) ==
  {n \in TextNodes(h, root) :
     \E a \in Ancestors(h, n) : h[a].tag \in SkippedTags}

CharsOf(h, nodes) == UNION {Range(h[n].text) : n \in nodes}

AltChars(h, root) ==
  UNION {Range(h[n].attrs.alt) : n \in Range(Descendants(h, root))}

\* characters that the subtree holds only inside skipped elements
HiddenOnlyChars(h, root) ==
  CharsOf(h, HiddenTexts(h, root))
    \ (CharsOf(h, TextNodes(h, root) \ HiddenTexts(h, root))
         \cup AltChars(h, root))

\* C17: a character that the converted subtree holds only inside script,
\* style, noscript or iframe elements never occurs in the Markdown output.
C17_SkippedTextAbsent ==
  (md.ran /\ md.ok) =>
    HiddenOnlyChars(dom, Body(dom)) \cap Range(md.s) = {}

\* the references that are absolute URLs: they begin with a scheme and ':'
AbsoluteUrls ==
  {"https://x.com/y", "https://example.com/c",
   "https://example.com/a/img.png", "https://example.com/a/http-guide.html"}

\* every reference and resolution a conversion can emit
AllUrls == UrlRefs \cup {NewURL(r, PageUrl) : r \in UrlRefs}

ExpectedTarget(ref) ==
  IF ref \in AbsoluteUrls THEN ref ELSE NewURL(ref, PageUrl)

\* the reference of a link or image directly under the converted root
TopRefs(h) ==
  {h[n].attrs.href : n \in {k \in Range(h[Body(h)].kids) : h[k].tag = "a"}}
    \cup {ImgSrc(h[n]) : n \in {k \in Range(h[Body(h)].kids) :
                                    h[k].tag = "img"}}

\* C18: every link or image target in the output is an absolute URL, and a
\* reference is emitted unchanged when it is an absolute URL and as its
\* resolution against the page URL otherwise.
C18_TargetsAbsolute ==
  (md.ran /\ md.ok) =>
    /\ Range(md.s) \cap AllUrls \subseteq AbsoluteUrls
    /\ \A ref \in TopRefs(dom) \ {""} : ExpectedTarget(ref) \in Range(md.s)

Tables(h) == {n \in Range(Descendants(h, Body(h))) : h[n].tag = "table"}

\* the tr elements of a table, and the cells of a row, in document order
RowsOf(h, table) ==
  SelectSeq(Descendants(h, table), LAMBDA n : h[n].tag = "tr")

CellsOf(h, row) ==
  SelectSeq(Descendants(h, row), LAMBDA n : h[n].tag \in {"td", "th"})

RowLine(h, row) ==
  <<"|", " ">>
    \o Join([i \in 1..Len(CellsOf(h, row)) |->
               Trim(TextContent(h, CellsOf(h, row)[i]))], <<" ", "|", " ">>)
    \o <<" ", "|">>

SeparatorLine(n) ==
  <<"|", " ">> \o Join([i \in 1..n |-> <<"-", "-", "-">>], <<" ", "|", " ">>)
    \o <<" ", "|">>

\* the number of columns of a table: the cells of its widest row
Columns(h, table) ==
  Max({Len(CellsOf(h, RowsOf(h, table)[i])) :
         i \in 1..Len(RowsOf(h, table))})

NonBlankLines(s) == SelectSeq(Lines(s), LAMBDA line : ~Blank(line))

\* the lines of a converted table: its rows in document order, with one
\* separator of n cells immediately after the first row
TableLines(h, table, n) ==
  [i \in 1..(Len(RowsOf(h, table)) + 1) |->
     IF i = 1 THEN RowLine(h, RowsOf(h, table)[1])
     ELSE IF i = 2 THEN SeparatorLine(n)
     ELSE RowLine(h, RowsOf(h, table)[i - 1])]

\* C19 as stated: a table without rows converts to the empty string; any
\* other table converts to one line per tr, in document order, holding the
\* trimmed cell texts, with exactly one separator line, immediately after
\* the first row, that holds one '---' per column of the table.
C19_SeparatorPerColumn ==
  md.ran =>
    \A t \in Tables(dom) :
      IF Len(RowsOf(dom, t)) = 0
      THEN convertTableToMarkdown(dom, t) = <<>>
      ELSE NonBlankLines(convertTableToMarkdown(dom, t))
             = TableLines(dom, t, Columns(dom, t))

\* C19 amended: the same, with a separator that holds one '---' per cell
\* of the first row.
C19_SeparatorPerHeaderCell ==
  md.ran =>
    \A t \in Tables(dom) :
      IF Len(RowsOf(dom, t)) = 0
      THEN convertTableToMarkdown(dom, t) = <<>>
      ELSE NonBlankLines(convertTableToMarkdown(dom, t))
             = TableLines(dom, t, Len(CellsOf(dom, RowsOf(dom, t)[1])))

\* a converted page holding a table whose second row is wider than its first
C19_Witness ==
  /\ md.ran /\ md.ok
  /\ \E t \in Tables(dom) :
       /\ Len(RowsOf(dom, t)) >= 2
       /\ Len(CellsOf(dom, RowsOf(dom, t)[2]))
            > Len(CellsOf(dom, RowsOf(dom, t)[1]))
       /\ \E i \in 1..Len(Lines(md.s)) :
            Lines(md.s)[i]
              = SeparatorLine(Len(CellsOf(dom, RowsOf(dom, t)[1])))

\* every child of the body is an element of the denylist, so that the
\* sanitization of a clone of the body leaves it without children
BodyEmptied(h) ==
  /\ Body(h) # Null
  /\ \A k \in Range(h[Body(h)].kids) :
       \E i \in 1..Len(UnwantedSelectors) :
         MatchesSimple(h, k, UnwantedSelectors[i])

\* C21: when the document has no body, or the body has no children, or the
\* body fallback ran and sanitization emptied the clone, extractArticle
\* returns normally and the content is the empty string.
C21_EmptyBodyEmptyContent ==
  (/\ extr.ran
   /\ \/ Body(dom) = Null
      \/ (Body(dom) # Null /\ dom[Body(dom)].kids = <<>>)
      \/ extr.method = "body" /\ BodyEmptied(dom))
    => extr.ok /\ extr.content = <<>>

\* the fallback ran on a body whose children were all removed
C21_Witness ==
  /\ extr.ran /\ extr.method = "body"
  /\ Body(dom) # Null /\ dom[Body(dom)].kids # <<>>
  /\ BodyEmptied(dom)
  /\ extr.content = <<>>

\* the node is on the denylist
Unwanted(h, n) ==
  \E i \in 1..Len(UnwantedSelectors) : MatchesSimple(h, n, UnwantedSelectors[i])

\* a descendant of root that is not on the denylist and has no ancestor
\* below root on it
Kept(h, root, n) ==
  /\ ~Unwanted(h, n)
  /\ \A a \in Ancestors(h, n) \cap Range(Descendants(h, root)) :
       ~Unwanted(h, a)

\* removeUnwantedElements(clone) leaves nothing of the denylist under the
\* clone, and leaves the other nodes as they were and in their order
Sanitized(before, after, root) ==
  /\ \A n \in Range(Descendants(after, root)) : ~Unwanted(after, n)
  /\ Descendants(after, root)
       = SelectSeq(Descendants(before, root),
                   LAMBDA n : Kept(before, root, n))
  /\ \A n \in Range(Descendants(after, root)) :
       /\ after[n].tag = before[n].tag
       /\ after[n].text = before[n].text
       /\ after[n].attrs = before[n].attrs

\* C22: after removeUnwantedElements(clone) no descendant of the clone
\* matches a selector of the denylist, and every descendant that matched
\* none and had no matching ancestor is still present, in the original
\* order.
C22_DenylistRemovedRestKept ==
  (extr.ran /\ extr.method = "body") =>
    LET clone == cloneNode(dom, Body(dom))
    IN Sanitized(clone.heap,
                 removeUnwantedElements(clone.heap, clone.node), clone.node)

\* the fallback sanitized a body that holds an unwanted element inside
\* another one, next to content that stays
C22_Witness ==
  /\ extr.ran /\ extr.method = "body"
  /\ \E n \in Range(Descendants(dom, Body(dom))) :
       /\ Unwanted(dom, n)
       /\ \E a \in Ancestors(dom, n) : Unwanted(dom, a)
  /\ \E n \in Range(Descendants(dom, Body(dom))) :
       IsElement(dom, n) /\ Kept(dom, Body(dom), n)

\* the part of a path after its last '/'
Basename(path) ==
  IF \E i \in 1..Len(path) : path[i] = "/"
  THEN SubSeq(path, Max({i \in 1..Len(path) : path[i] = "/"}) + 1, Len(path))
  ELSE path

\* the part of a path up to and including its last '/'
Dirname(path) ==
  IF \E i \in 1..Len(path) : path[i] = "/"
  THEN SubSeq(path, 1, Max({i \in 1..Len(path) : path[i] = "/"}))
  ELSE <<>>

\* the background takes the next message, which has content to save
Saving ==
  /\ bgQueue # <<>>
  /\ bgQueue' = Tail(bgQueue)
  /\ ~EmptyOrMissing(Head(bgQueue).data.content)

\* this step hands one more file to chrome.downloads.download
Downloads == Len(dlPending') = Len(dlPending) + 1

MyArticle == <<"M", "y", " ", "A", "r", "t", "i", "c", "l", "e">>

Stamp(now) == SubSeq(ReplaceEach(now.iso, {":"}), 1, 19)

\* C24: in a filename template {datetime} expands to the ISO date and time
\* of the save moment, in the form 2024-01-15T10-30-00, which is not what
\* {date} expands to.
C24_DatetimeHasTime ==
  [][(Saving /\ Head(bgQueue).data.filenameTemplate = <<"{datetime}">>)
     => /\ Downloads
        /\ \E now \in Moments :
             /\ Basename(dlPending'[Len(dlPending')].filename)
                  = Stamp(now) \o <<".", "m", "d">>
             /\ Stamp(now) # BeforeT(now.iso)]_vars

\* articles/{domain}/{year}/{month}/ at a moment, for the page's domain
DocumentedDefaultPath(now) ==
  <<"a", "r", "t", "i", "c", "l", "e", "s">> \o <<"/">> \o <<"e", "x", "a", "m", "p", "l", "e", ".", "c", "o", "m">> \o <<"/">> \o Decimal(now.year)
    \o <<"/">> \o PadStart2(now.month + 1) \o <<"/">>

\* C25: with the settings never saved, a save triggered by the popup or by
\* the context menu puts the file under articles/{domain}/{year}/{month}/
\* with the variables expanded.
C25_DefaultPathExpanded ==
  [][(Saving /\ Head(bgQueue).data.subPath = DefaultSubPath)
     => /\ Downloads
        /\ \E now \in Moments :
             Dirname(dlPending'[Len(dlPending')].filename)
               = DocumentedDefaultPath(now)]_vars

Lists(h) ==
  {n \in Range(Descendants(h, Body(h))) : h[n].tag \in {"ul", "ol"}}

\* the positions of the direct li children among the children of a list
LiPositions(h, list) ==
  {k \in 1..Len(h[list].kids) : h[h[list].kids[k]].tag = "li"}

\* the number of a direct li child: its 1-based position among them
ItemNumber(h, list, k) == Cardinality({j \in LiPositions(h, list) : j <= k})

Marker(h, list, k) ==
  IF h[list].tag = "ol" THEN Decimal(ItemNumber(h, list, k)) \o <<".", " ">>
  ELSE <<"-", " ">>

\* what the child at position k of a list at the given level adds to the
\* list's fragment
ItemOutput(h, list, k, level) ==
  IF k \in LiPositions(h, list)
  THEN <<NL>> \o Rep(" ", 2 * level) \o Marker(h, list, k)
         \o Trim(ProcessChildren(h, h[list].kids[k], level + 1).s)
  ELSE <<>>

ListOutput(h, list, level) ==
  Concat([k \in 1..Len(h[list].kids) |-> ItemOutput(h, list, k, level)])
    \o Str2

\* C26: the fragment of a ul or ol consists of one item per direct li
\* child, in document order, prefixed '- ' or 'N. ' with N its position
\* among the direct li children; other direct children of a list, and an
\* li converted on its own, contribute nothing.
C26_DirectItemsOnly ==
  (md.ran /\ md.ok) =>
    /\ \A list \in Lists(dom) : \A level \in 0..1 :
         processNode(dom, list, level).s = ListOutput(dom, list, level)
    /\ \A n \in DOMAIN dom :
         dom[n].tag = "li" => processNode(dom, n, 0).s = <<>>
    /\ \A k \in 1..Len(dom[Body(dom)].kids) :
         (Len(dom[Body(dom)].kids) = 1
            /\ dom[Body(dom)].kids[k] \in Lists(dom))
         => md.s = Trim(CollapseNewlines(
                          ListOutput(dom, dom[Body(dom)].kids[k], 0)))

\* a converted ordered list with text between its items, the second of
\* which is numbered 2
C26_Witness ==
  /\ md.ran /\ md.ok
  /\ \E list \in Lists(dom) :
       /\ dom[list].tag = "ol"
       /\ LiPositions(dom, list) # 1..Len(dom[list].kids)
       /\ Cardinality(LiPositions(dom, list)) >= 2
  /\ "2" \in Range(md.s)

\* the text is made of blanks, tabs and line breaks only
WhitespaceOnly(text) == \A i \in 1..Len(text) : text[i] \in {" ", "\t", "\n"}

\* what a child contributes to its parent's output, a whitespace-only text
\* node nothing
Contribution(h, n) ==
  IF IsText(h, n) /\ WhitespaceOnly(h[n].text) THEN <<>>
  ELSE processNode(h, n, 0).s

\* C27: a text node contributes its text unchanged when it holds anything
\* but white space and nothing otherwise, so the output of a parent (and of
\* the conversion) is the same as without its whitespace-only text nodes.
C27_TextVerbatimOrNothing ==
  (md.ran /\ md.ok) =>
    /\ \A n \in TextNodes(dom, Body(dom)) :
         processNode(dom, n, 0).s
           = IF WhitespaceOnly(dom[n].text) THEN <<>> ELSE dom[n].text
    /\ \A e \in Range(Preorder(dom, Body(dom))) :
         ProcessChildren(dom, e, 0).s
           = Concat([k \in 1..Len(dom[e].kids) |->
                       Contribution(dom, dom[e].kids[k])])
    /\ md.s = Trim(CollapseNewlines(
                Concat([k \in 1..Len(dom[Body(dom)].kids) |->
                          Contribution(dom, dom[Body(dom)].kids[k])])))

\* a whitespace-only text node sits between two inline elements whose
\* outputs are adjacent in the Markdown
C27_Witness ==
  /\ md.ran /\ md.ok
  /\ \E e \in Range(Descendants(dom, Body(dom))) :
       \E k \in 2..(Len(dom[e].kids) - 1) :
         /\ IsText(dom, dom[e].kids[k])
         /\ WhitespaceOnly(dom[dom[e].kids[k]].text)
         /\ dom[dom[e].kids[k - 1]].tag = "em"
         /\ dom[dom[e].kids[k + 1]].tag = "strong"
  /\ \E i \in 1..(Len(md.s) - 2) :
       SubSeq(md.s, i, i + 2) = <<"*", "*", "*">>

\* this step delivers an extractArticle message of request r to the tab
Sends(r) ==
  /\ Len(csQueue') = Len(csQueue) + 1
  /\ csQueue'[Len(csQueue')].req = r

\* this step runs content.js in the tab once more
Injects == listeners' = listeners + 1

\* C28: for each click, content.js is injected only after the first send
\* was rejected and at most once; the injection is followed by one retry
\* send and nothing else; a click sends at most twice (the first attempt
\* and the retry); a rejected retry ends the handler, and the popup stays
\* open.
C28_InjectOnceRetryOnce ==
  [][/\ Injects => \E r \in Requests : pc[r] = "inject" /\ pc'[r] = "retry"
     /\ \A r \in Requests :
          /\ (pc'[r] = "inject" /\ pc[r] # "inject")
               => pc[r] = "none" /\ listeners = 0 /\ ~Sends(r)
          /\ (pc'[r] = "retry" /\ pc[r] # "retry")
               => pc[r] = "inject" /\ Injects
          /\ (pc[r] = "retry" /\ pc'[r] # "retry")
               => \/ listeners > 0 /\ Sends(r) /\ pc'[r] = Finished(r)
                  \/ listeners = 0 /\ ~Sends(r) /\ pc'[r] = "rejected"
          /\ Sends(r)
               => pc[r] \in {"none", "retry"} /\ pc'[r] = Finished(r)
          /\ pc[r] \in {"closed", "done", "rejected"} => pc'[r] = pc[r]]_vars

\* the popup's retry was rejected and its window stays open, while the
\* context menu's retry was delivered
C28_Witness ==
  /\ pc["popup"] = "rejected"
  /\ pc["menu"] = "done"
  /\ listeners > 0
  /\ reloads > 0

\* a string is non-empty and neither starts nor ends with white space
Trimmed(s) ==
  /\ s # <<>>
  /\ s[1] \notin {" ", "\t", "\n"}
  /\ s[Len(s)] \notin {" ", "\t", "\n"}

\* C29: after any sequence of submits and resets from the defaults the
\* stored subPath and filenameTemplate are non-empty and have no leading or
\* trailing white space, and a submit with a field that is empty once
\* trimmed shows an error and leaves the stored settings as they were.
C29_StoredSettingsTrimmed ==
  /\ [](Trimmed(options.subPath) /\ Trimmed(options.filenameTemplate))
  /\ [][((\E lastError \in BOOLEAN : Submit(lastError))
          /\ (WhitespaceOnly(options.fieldSubPath)
                \/ WhitespaceOnly(options.fieldTemplate)))
        => /\ options'.subPath = options.subPath
           /\ options'.filenameTemplate = options.filenameTemplate
           /\ options'.shown
           /\ options'.status \in {"Please enter a subfolder path",
                                   "Please enter a filename template"}]_vars

\* settings typed with surrounding blanks were stored, and a later submit
\* with a blank field was refused
C29_Witness ==
  /\ options.subPath = <<"a">>
  /\ options.filenameTemplate = <<"b", " ", "c">>
  /\ WhitespaceOnly(options.fieldSubPath)
  /\ options.shown /\ options.status = "Please enter a subfolder path"

\* the node incurs neither the link-density nor the form-control penalty
NoPenalty(h, n) ==
  /\ ~(LinkCount(h, n) * 50 > TextLen(h, n))
  /\ ~HasControl(h, n)

\* a div the Locator takes for its text: it holds a p and more than 500
\* characters
QualifyingDiv(h, n) ==
  /\ h[n].tag = "div"
  /\ Among(h, n, {"p"}) # {}
  /\ TextLen(h, n) > 500

\* <<outer, inner>>: qualifying divs free of penalties, one inside the other
NestedDivs(h) ==
  {<<a, b>> \in (DOMAIN h) \X (DOMAIN h) :
     /\ QualifyingDiv(h, a) /\ QualifyingDiv(h, b)
     /\ NoPenalty(h, a) /\ NoPenalty(h, b)
     /\ a \in Ancestors(h, b)}

\* an element without penalty scores at least what each of its descendants
\* scores
ScoreMonotone(h) ==
  \A a \in Elements(h) :
    NoPenalty(h, a) =>
      \A b \in Range(Descendants(h, a)) \cap Elements(h) :
        scoreContentNode(h, a) >= scoreContentNode(h, b)

MatchesArticleSelector(h, n) ==
  \E i \in 1..Len(ArticleSelectors) : Matches(h, n, ArticleSelectors[i])

\* C30 as stated: an element without penalty scores at least what each of
\* its descendants scores, and of two nested qualifying divs free of
\* penalties the Locator never returns the inner one.
C30_InnerDivNeverReturned ==
  extr.ran =>
    /\ ScoreMonotone(dom)
    /\ \A pair \in NestedDivs(dom) : extr.source # pair[2]

\* C30 amended: the same, for an inner div that matches none of the
\* Locator's selectors.
C30_UnselectedInnerDivNeverReturned ==
  extr.ran =>
    /\ ScoreMonotone(dom)
    /\ \A pair \in NestedDivs(dom) :
         ~MatchesArticleSelector(dom, pair[2]) => extr.source # pair[2]

\* the Locator returned the outer of two nested divs of equal score
C30_Witness ==
  /\ extr.ran
  /\ \E pair \in NestedDivs(dom) :
       /\ ~MatchesArticleSelector(dom, pair[2])
       /\ scoreContentNode(dom, pair[1]) = scoreContentNode(dom, pair[2])
       /\ extr.source = pair[1]

=============================================================================
